---- MODULE Spec2Model ----
(***************************************************************************)
(* BandLab: revision allocation, idempotent revision creation, the         *)
(* active-revision pointer, mix-session snapshots and their replacement,   *)
(* and the presign/complete life cycle of assets.                          *)
(*                                                                         *)
(* The web client reaches the API through apiFetch, which dispatches to    *)
(* one of two implementations: the Hono worker on Postgres                 *)
(* (apps/worker/src/index.ts + the SQL migration) or the in-browser mock   *)
(* (mockApiFetch).  The variable impl selects which implementation a       *)
(* behaviour runs; it never changes.                                       *)
(*                                                                         *)
(* Worker handlers are sequences of awaited database calls; every database *)
(* call is one atomic step and the calls of concurrent requests interleave *)
(* freely.  The membership reads at the head of a handler read tables      *)
(* that no modelled operation writes and are folded into the step that     *)
(* starts the request.  Mock handlers contain no await and run atomically. *)
(*                                                                         *)
(* Outcomes are recorded as HTTP status codes.  The mock throws Error      *)
(* objects; its messages are recorded under the code the worker uses for   *)
(* the same condition ("Forbidden" 403, "... not found" 404, anything      *)
(* else 500).  Storage calls that come back with an error are explored for *)
(* createSession only (SessFailSpec); elsewhere every call is answered.    *)
(*                                                                         *)
(* Spec explores the revision and pointer routes from an empty store with  *)
(* every kind of input; SessSpec explores the track and mix-session routes *)
(* and AssetSpec the asset routes, each from a store that already holds    *)
(* revisions; ReplSpec explores replaceSessionTracks on an existing        *)
(* session and AuthSpec the authentication middleware.  FlowSpec explores   *)
(* concurrent runs of the web client's uploadAsset flow and PlaySpec the   *)
(* page's getPreviewAssetId over the states the page can have loaded.      *)
(***************************************************************************)
EXTENDS Integers, FiniteSets, Sequences, TLC

\* ------------------------------------------------------------------ bounds
\* Number of API requests issued in one behaviour (each slot is used once).
NReq == 2

ReqIds == 1..NReq

\* ------------------------------------------------------------ value spaces
Null == "null"
Undefined == "undefined"
NoSuchId == "r?"

Impls == {"worker", "mock"}
Users == {"u1", "u2"}
TrackIds == {"tA", "tB"}

\* Request bodies accepted by createRevisionSchema: idempotency_key absent,
\* the empty string, or a non-empty string; title/memo absent or present.
Keys == {Undefined, "", "k"}
Bodies == {[title |-> Undefined, memo |-> Undefined], [title |-> "x", memo |-> "m"]}

\* gen_random_uuid() / crypto.randomUUID(): the n-th identifier handed out.
RevIdSeq == <<"r1", "r2", "r3", "r4", "r5", "r6">>
newId(n) == RevIdSeq[n]

VARIABLES
    impl,                     \* which implementation serves apiFetch
    band_members,             \* table band_members
    songs,                    \* table songs: song id -> band id
    tracks,                   \* table tracks: track id -> row
    track_revision_counters,  \* table track_revision_counters: 0 = no row
    track_revisions,          \* table track_revisions / state.revisions
    track_assets,             \* table track_assets / state.assets
    mix_sessions,             \* table mix_sessions / state.mixSessions
    mix_session_tracks,       \* table mix_session_tracks / state.mixSessionTracks
    reqs                      \* the requests: parameters, position, outcome

vars == <<impl, band_members, songs, tracks, track_revision_counters,
          track_revisions, track_assets, mix_sessions, mix_session_tracks, reqs>>

\* the tables of the asset and mix-session routes
sessVars == <<track_assets, mix_sessions, mix_session_tracks>>

\* ----------------------------------------------------------------- helpers
IdleReq == [op |-> "idle", pc |-> "idle", user |-> Null, track |-> Null,
            key |-> Undefined, title |-> Undefined, memo |-> Undefined,
            rev |-> Undefined, num |-> 0, status |-> 0, ret |-> Null,
            retnum |-> 0, pred |-> {},
            song |-> Null, base |-> Null, sess |-> Null, list |-> <<>>,
            snap |-> {}, asset |-> Null, atype |-> Null,
            method |-> Null, path |-> <<>>,
            header |-> [scheme |-> "", cred |-> ""], query |-> "",
            steps |-> {}]

Done(r) == reqs[r].pc = "done"
DoneSet == {r \in ReqIds : Done(r)}

\* body.x ?? null
OrNull(v) == IF v = Undefined THEN Null ELSE v

isBandMember(bandId, userId) ==
    \E m \in band_members : m.band_id = bandId /\ m.user_id = userId

getTrackWithBand(trackId) ==
    [id |-> trackId, song_id |-> tracks[trackId].song_id,
     band_id |-> songs[tracks[trackId].song_id]]

RevisionsOf(revs, trackId) == {x \in revs : x.track_id = trackId}
NumbersOf(revs, trackId) == {x.revision_number : x \in RevisionsOf(revs, trackId)}

SetMax(S) == IF S = {} THEN 0 ELSE CHOOSE m \in S : \A n \in S : n <= m

Finish(r, code, id, n) ==
    [reqs EXCEPT ![r].pc = "done", ![r].status = code, ![r].ret = id, ![r].retnum = n]

\* -------------------------------------------------------------------- Init
\* The store after one band (member u1; u2 is a user outside the band), one
\* song and two tracks have been created: createTrack leaves
\* active_revision_id null, and no revision or counter row exists yet.
Init ==
    /\ impl \in Impls
    /\ band_members = {[band_id |-> "b1", user_id |-> "u1"]}
    /\ songs = [s \in {"s1"} |-> "b1"]
    /\ tracks = [t \in TrackIds |->
                   [song_id |-> "s1", sort_order |-> IF t = "tA" THEN 1 ELSE 2,
                    active_revision_id |-> Null]]
    /\ track_revision_counters = [t \in TrackIds |-> 0]
    /\ track_revisions = {}
    /\ track_assets = {}
    /\ mix_sessions = {}
    /\ mix_session_tracks = {}
    /\ reqs = [r \in ReqIds |-> IdleReq]

\* ------------------------------------------------- storage layer (Postgres)
\* allocate_track_revision_number: insert (track, 1), on conflict add one to
\* the stored value; returns the stored value.  c = 0 stands for "no row".
\* (variant: the conflict branch stores the value back without adding one)
allocate_without_increment(c) == IF c = 0 THEN 1 ELSE c

allocate_track_revision_number(c) == IF c = 0 THEN 1 ELSE c + 1

\* unique(track_id, revision_number), unique(track_id, idempotency_key);
\* NULL keys never collide with each other.
NumberCollision(revs, row) ==
    \E x \in revs : x.track_id = row.track_id /\ x.revision_number = row.revision_number

\* (variant: the table lacks unique(track_id, idempotency_key))
KeyCollisionUnchecked(revs, row) == FALSE

KeyCollision(revs, row) ==
    /\ row.idempotency_key # Null
    /\ \E x \in revs : x.track_id = row.track_id /\ x.idempotency_key = row.idempotency_key

UniqueViolation(revs, row) == NumberCollision(revs, row) \/ KeyCollision(revs, row)

\* (variant: the insert is an upsert on (track_id, idempotency_key))
UpsertRevision(revs, row) ==
    IF NumberCollision(revs, row)
    THEN [error |-> "23505", rows |-> revs]
    ELSE [error |-> Null,
          rows |-> {x \in revs : ~(/\ row.idempotency_key # Null
                                   /\ x.track_id = row.track_id
                                   /\ x.idempotency_key = row.idempotency_key)}
                   \cup {row}]

\* insert(...).select("*").single(): a unique violation is error code 23505
\* and stores nothing.
InsertRevision(revs, row) ==
    IF UniqueViolation(revs, row)
    THEN [error |-> "23505", rows |-> revs]
    ELSE [error |-> Null, rows |-> revs \cup {row}]

\* tracks_active_revision_fk: the value is NULL or the id of some revision.
ActiveRevisionFkOk(revs, id) == id = Null \/ \E x \in revs : x.id = id

\* JavaScript truthiness of body.idempotency_key
Truthy(v) == v # Undefined /\ v # ""

\* (variant: the lookup filters on the key only)
ExistingByKeyAnyTrack(revs, trackId, key) ==
    {x \in revs : x.idempotency_key = key}

\* .eq("track_id", trackId).eq("idempotency_key", key).maybeSingle()
ExistingByKey(revs, trackId, key) ==
    {x \in revs : x.track_id = trackId /\ x.idempotency_key = key}

\* (variant: the select filters on the id only)
SelectRevisionAnyTrack(revs, revisionId, trackId) ==
    {x \in revs : x.id = revisionId}

\* .eq("id", revisionId).eq("track_id", trackId).single()
SelectRevisionOfTrack(revs, revisionId, trackId) ==
    {x \in revs : x.id = revisionId /\ x.track_id = trackId}

\* Identifiers a caller can name: one it has seen, or one that names nothing.
KnownIds == {x.id : x \in track_revisions} \cup {NoSuchId}

NextSlot(r) == reqs[r].pc = "idle" /\ \A q \in ReqIds : q < r => reqs[q].pc # "idle"

NewReq(o, u, t) ==
    [IdleReq EXCEPT !.op = o, !.user = u, !.track = t, !.pred = DoneSet]

\* Head of every worker track handler: getTrackWithBand + isBandMember.
Admit(q, nextPc) ==
    IF isBandMember(getTrackWithBand(q.track).band_id, q.user)
    THEN [q EXCEPT !.pc = nextPc]
    ELSE [q EXCEPT !.pc = "done", !.status = 403]

\* ------------------------------- worker: POST /api/tracks/:trackId/revisions
WStartCreateRevision(r) ==
    /\ impl = "worker"
    /\ NextSlot(r)
    /\ \E u \in Users, t \in TrackIds, k \in Keys, b \in Bodies :
         LET q == [NewReq("createRevision", u, t) EXCEPT
                     !.key = k, !.title = b.title, !.memo = b.memo]
         IN reqs' = [reqs EXCEPT ![r] =
                       Admit(q, IF Truthy(k) THEN "lookup" ELSE "allocate")]
    /\ UNCHANGED <<impl, band_members, songs, tracks, track_revision_counters,
                   track_revisions>>
    /\ UNCHANGED sessVars

WLookupRevision(r) ==
    /\ impl = "worker"
    /\ reqs[r].pc = "lookup"
    /\ LET existing == ExistingByKey(track_revisions, reqs[r].track, reqs[r].key)
       IN IF existing # {}
          THEN LET x == CHOOSE x \in existing : TRUE
               IN reqs' = Finish(r, 200, x.id, x.revision_number)
          ELSE reqs' = [reqs EXCEPT ![r].pc = "allocate"]
    /\ UNCHANGED <<impl, band_members, songs, tracks, track_revision_counters,
                   track_revisions>>
    /\ UNCHANGED sessVars

\* (variant: one counter row is shared by all tracks)
CounterSharedByTracks(counters, trackId, n) == [t \in DOMAIN counters |-> n]

\* on conflict (track_id) do update: the row keyed by p_track_id is the only
\* row of track_revision_counters the function writes.
CounterRowWritten(counters, trackId, n) == [counters EXCEPT ![trackId] = n]

WAllocate(r) ==
    /\ impl = "worker"
    /\ reqs[r].pc = "allocate"
    /\ LET n == allocate_track_revision_number(track_revision_counters[reqs[r].track])
       IN /\ track_revision_counters' =
                CounterRowWritten(track_revision_counters, reqs[r].track, n)
          /\ reqs' = [reqs EXCEPT ![r].pc = "insert", ![r].num = n]
    /\ UNCHANGED <<impl, band_members, songs, tracks, track_revisions>>
    /\ UNCHANGED sessVars

WInsertRevision(r) ==
    /\ impl = "worker"
    /\ reqs[r].pc = "insert"
    /\ LET row == [id |-> newId(Cardinality(track_revisions) + 1),
                   track_id |-> reqs[r].track,
                   revision_number |-> reqs[r].num,
                   title |-> OrNull(reqs[r].title),
                   memo |-> OrNull(reqs[r].memo),
                   idempotency_key |-> OrNull(reqs[r].key),
                   created_by |-> reqs[r].user]
           revisionRes == InsertRevision(track_revisions, row)
       IN /\ track_revisions' = revisionRes.rows
          /\ reqs' = IF revisionRes.error = "23505"
                     THEN Finish(r, 409, Null, 0)
                     ELSE Finish(r, 200, row.id, row.revision_number)
    /\ UNCHANGED <<impl, band_members, songs, tracks, track_revision_counters>>
    /\ UNCHANGED sessVars

\* ---------------------------------- worker: POST /api/tracks/:trackId/active
WStartSetActive(r) ==
    /\ impl = "worker"
    /\ NextSlot(r)
    /\ \E u \in Users, t \in TrackIds, id \in KnownIds :
         reqs' = [reqs EXCEPT ![r] =
                    Admit([NewReq("setActive", u, t) EXCEPT !.rev = id], "select")]
    /\ UNCHANGED <<impl, band_members, songs, tracks, track_revision_counters,
                   track_revisions>>
    /\ UNCHANGED sessVars

WSelectRevision(r) ==
    /\ impl = "worker"
    /\ reqs[r].pc = "select"
    /\ IF SelectRevisionOfTrack(track_revisions, reqs[r].rev, reqs[r].track) = {}
       THEN reqs' = Finish(r, 404, Null, 0)
       ELSE reqs' = [reqs EXCEPT ![r].pc = "update"]
    /\ UNCHANGED <<impl, band_members, songs, tracks, track_revision_counters,
                   track_revisions>>
    /\ UNCHANGED sessVars

\* (variant: a trigger on tracks copies the new pointer into the session rows)
tracks_repoint_sessions(rows, trackId, revisionId) ==
    {[x EXCEPT !.track_revision_id =
                  IF x.track_id = trackId THEN revisionId ELSE @] : x \in rows}

\* tracks_set_updated_at, the only trigger on tracks, stamps the updated row
\* of tracks; the update writes no row of mix_session_tracks.
tracks_set_updated_at(rows, trackId, revisionId) == rows

\* (variant: the pointer is written only while it is unset)
UpdateActiveIfUnset(trs, trackId, revisionId) ==
    [trs EXCEPT ![trackId].active_revision_id =
                   IF @ = Null THEN revisionId ELSE @]

\* .update({ active_revision_id: body.track_revision_id }).eq("id", trackId)
UpdateActiveRevision(trs, trackId, revisionId) ==
    [trs EXCEPT ![trackId].active_revision_id = revisionId]

WUpdateActive(r) ==
    /\ impl = "worker"
    /\ reqs[r].pc = "update"
    /\ tracks' = UpdateActiveRevision(tracks, reqs[r].track, reqs[r].rev)
    /\ mix_session_tracks' =
          tracks_set_updated_at(mix_session_tracks, reqs[r].track, reqs[r].rev)
    /\ reqs' = Finish(r, 200, Null, 0)
    /\ UNCHANGED <<impl, band_members, songs, track_revision_counters,
                   track_revisions, track_assets, mix_sessions>>

\* ---------------------------------------- worker: PATCH /api/tracks/:trackId
\* Only active_revision_id of the update is modelled; an absent field is not
\* sent to the database.
WStartUpdateTrack(r) ==
    /\ impl = "worker"
    /\ NextSlot(r)
    /\ \E u \in Users, t \in TrackIds, id \in KnownIds \cup {Undefined, Null} :
         reqs' = [reqs EXCEPT ![r] =
                    Admit([NewReq("updateTrack", u, t) EXCEPT !.rev = id], "patch")]
    /\ UNCHANGED <<impl, band_members, songs, tracks, track_revision_counters,
                   track_revisions>>
    /\ UNCHANGED sessVars

WUpdateTrack(r) ==
    /\ impl = "worker"
    /\ reqs[r].pc = "patch"
    /\ IF reqs[r].rev = Undefined
       THEN /\ reqs' = Finish(r, 200, Null, 0)
            /\ UNCHANGED tracks
       ELSE IF ActiveRevisionFkOk(track_revisions, reqs[r].rev)
       THEN /\ tracks' = [tracks EXCEPT ![reqs[r].track].active_revision_id = reqs[r].rev]
            /\ reqs' = Finish(r, 200, Null, 0)
       ELSE /\ reqs' = Finish(r, 500, Null, 0)
            /\ UNCHANGED tracks
    /\ UNCHANGED <<impl, band_members, songs, track_revision_counters,
                   track_revisions>>
    /\ UNCHANGED sessVars

\* ------------------------------------------------------- mock (mockApiFetch)
\* assertBandMember(song.band_id, user.id) after the track and song lookups
MockAdmitted(q) == isBandMember(songs[tracks[q.track].song_id], q.user)

\* (variant: the maximum is used without adding one)
MockCurrentMax(revs, trackId) == SetMax(NumbersOf(revs, trackId))

\* reduce((max, r) => Math.max(max, r.revision_number), 0) + 1
MockNextRevisionNumber(revs, trackId) == SetMax(NumbersOf(revs, trackId)) + 1

\* (variant: the pointer always follows the newest revision)
MockPromoteAlways(active, revisionId) == revisionId

\* if (!track.active_revision_id) track.active_revision_id = revision.id
MockPromote(active, revisionId) == IF active = Null THEN revisionId ELSE active

\* state.revisions.find((r) => r.id === revisionId && r.track_id === trackId)
MockFindRevision(revs, revisionId, trackId) ==
    {x \in revs : x.id = revisionId /\ x.track_id = trackId}

\* POST /api/tracks/:id/revisions; body.idempotency_key is never read and
\* MockRevision has no such field (recorded as NULL in the shared row shape).
MockCreateRevision(r) ==
    /\ impl = "mock"
    /\ NextSlot(r)
    /\ \E u \in Users, t \in TrackIds, k \in Keys, b \in Bodies :
         LET q == [NewReq("createRevision", u, t) EXCEPT
                     !.key = k, !.title = b.title, !.memo = b.memo, !.pc = "done"]
             row == [id |-> newId(Cardinality(track_revisions) + 1),
                     track_id |-> t,
                     revision_number |-> MockNextRevisionNumber(track_revisions, t),
                     title |-> OrNull(b.title),
                     memo |-> OrNull(b.memo),
                     idempotency_key |-> Null,
                     created_by |-> u]
         IN IF ~MockAdmitted(q)
            THEN /\ reqs' = [reqs EXCEPT ![r] = [q EXCEPT !.status = 403]]
                 /\ UNCHANGED <<tracks, track_revisions>>
            ELSE /\ track_revisions' = track_revisions \cup {row}
                 /\ tracks' = [tracks EXCEPT ![t].active_revision_id =
                                   MockPromote(@, row.id)]
                 /\ reqs' = [reqs EXCEPT ![r] =
                               [q EXCEPT !.status = 200, !.ret = row.id,
                                         !.retnum = row.revision_number]]
    /\ UNCHANGED <<impl, band_members, songs, track_revision_counters>>
    /\ UNCHANGED sessVars

\* POST /api/tracks/:id/active
MockSetActive(r) ==
    /\ impl = "mock"
    /\ NextSlot(r)
    /\ \E u \in Users, t \in TrackIds, id \in KnownIds :
         LET q == [NewReq("setActive", u, t) EXCEPT !.rev = id, !.pc = "done"]
         IN IF ~MockAdmitted(q)
            THEN /\ reqs' = [reqs EXCEPT ![r] = [q EXCEPT !.status = 403]]
                 /\ UNCHANGED tracks
            ELSE IF MockFindRevision(track_revisions, id, t) = {}
            THEN /\ reqs' = [reqs EXCEPT ![r] = [q EXCEPT !.status = 404]]
                 /\ UNCHANGED tracks
            ELSE /\ tracks' = [tracks EXCEPT ![t].active_revision_id = id]
                 /\ reqs' = [reqs EXCEPT ![r] = [q EXCEPT !.status = 200]]
    /\ UNCHANGED <<impl, band_members, songs, track_revision_counters,
                   track_revisions>>
    /\ UNCHANGED sessVars

\* PATCH /api/tracks/:id matches no mock route: "Mock route not implemented".
MockUpdateTrack(r) ==
    /\ impl = "mock"
    /\ NextSlot(r)
    /\ \E u \in Users, t \in TrackIds, id \in KnownIds \cup {Undefined, Null} :
         reqs' = [reqs EXCEPT ![r] =
                    [NewReq("updateTrack", u, t) EXCEPT
                       !.rev = id, !.pc = "done", !.status = 500]]
    /\ UNCHANGED <<impl, band_members, songs, tracks, track_revision_counters,
                   track_revisions>>
    /\ UNCHANGED sessVars

\* ---------------------------------------------------------- specification
Next ==
    \E r \in ReqIds :
        \/ WStartCreateRevision(r)
        \/ WLookupRevision(r)
        \/ WAllocate(r)
        \/ WInsertRevision(r)
        \/ WStartSetActive(r)
        \/ WSelectRevision(r)
        \/ WUpdateActive(r)
        \/ WStartUpdateTrack(r)
        \/ WUpdateTrack(r)
        \/ MockCreateRevision(r)
        \/ MockSetActive(r)
        \/ MockUpdateTrack(r)

Spec == Init /\ [][Next]_vars

\* ================================================================= claims
Member(r) == isBandMember(songs[tracks[reqs[r].track].song_id], reqs[r].user)

MemberCreate(r) == reqs[r].op = "createRevision" /\ Member(r)

\* createRevision requests by members against track t, started so far
CreatesOn(t) == {r \in ReqIds : MemberCreate(r) /\ reqs[r].track = t}

\* the lifetimes of r1 and r2 overlap
Concurrent(r1, r2) ==
    /\ r1 # r2
    /\ reqs[r1].op # "idle" /\ reqs[r2].op # "idle"
    /\ r1 \notin reqs[r2].pred /\ r2 \notin reqs[r1].pred

SameKeyCreates(r1, r2) ==
    /\ r1 # r2
    /\ MemberCreate(r1) /\ MemberCreate(r2)
    /\ reqs[r1].track = reqs[r2].track
    /\ reqs[r1].key = reqs[r2].key
    /\ reqs[r1].key # Undefined /\ reqs[r1].key # ""

StoredWithKey(t, k) == {x \in track_revisions : x.track_id = t /\ x.idempotency_key = k}

\* C1: when every createRevision request against a track carries no
\* idempotency key and all of them have returned, whatever their
\* interleaving, each returned 200 and both the numbers returned and the
\* numbers stored for the track are exactly 1..N.
C1_KeylessCreatesNumbered ==
    \A t \in TrackIds :
        LET C == CreatesOn(t) IN
        (C # {} /\ \A r \in C : Done(r) /\ reqs[r].key = Undefined)
        => /\ \A r \in C : reqs[r].status = 200
           /\ {reqs[r].retnum : r \in C} = 1..Cardinality(C)
           /\ NumbersOf(track_revisions, t) = 1..Cardinality(C)

C1_Witness ==
    \E t \in TrackIds :
        /\ CreatesOn(t) = ReqIds
        /\ \A r \in ReqIds : Done(r) /\ reqs[r].key = Undefined
        /\ \E r1, r2 \in ReqIds : Concurrent(r1, r2)

\* C2: no two stored revisions of the same track carry the same
\* revision_number.
C2_NumbersUnique ==
    \A x, y \in track_revisions :
        (x.track_id = y.track_id /\ x.revision_number = y.revision_number) => x = y

C2_Witness ==
    \E x, y \in track_revisions :
        /\ x.track_id = y.track_id /\ x # y
        /\ \E r1, r2 \in ReqIds :
             Concurrent(r1, r2) /\ reqs[r1].ret = x.id /\ reqs[r2].ret = y.id

\* C3: whenever no createRevision on a track stands between its allocation
\* and its insert, the numbers stored for the track are exactly 1..k for its
\* k revisions and the track's counter equals k.
C3_GaplessCounterMatchesRows ==
    \A t \in TrackIds :
        (\A r \in ReqIds : ~(reqs[r].pc = "insert" /\ reqs[r].track = t))
        => LET k == Cardinality(RevisionsOf(track_revisions, t)) IN
           /\ NumbersOf(track_revisions, t) = 1..k
           /\ impl = "worker" => track_revision_counters[t] = k

\* C4: a createRevision that starts after an earlier successful one on the
\* same track with the same (non-empty) idempotency key has returned,
\* returns 200 with the same revision id and revision_number.
C4_SequentialRetrySameRevision ==
    \A r1, r2 \in ReqIds :
        (/\ SameKeyCreates(r1, r2)
         /\ Done(r1) /\ Done(r2)
         /\ r1 \in reqs[r2].pred
         /\ reqs[r1].status = 200)
        => /\ reqs[r2].status = 200
           /\ reqs[r2].ret = reqs[r1].ret
           /\ reqs[r2].retnum = reqs[r1].retnum

\* C5 (as stated): two concurrent createRevision requests with the same key
\* on the same track both return 200 with the same revision id and number,
\* and one revision is stored under the key.
C5_ConcurrentSameKeyBothReturn ==
    \A r1, r2 \in ReqIds :
        (SameKeyCreates(r1, r2) /\ Concurrent(r1, r2) /\ Done(r1) /\ Done(r2))
        => /\ Cardinality(StoredWithKey(reqs[r1].track, reqs[r1].key)) = 1
           /\ reqs[r1].status = 200 /\ reqs[r2].status = 200
           /\ reqs[r1].ret = reqs[r2].ret
           /\ reqs[r1].retnum = reqs[r2].retnum

\* C5 (amended): after two concurrent createRevision requests with the same
\* key on the same track, exactly one revision is stored under the key, and
\* each request either returned that revision's id and number or was
\* answered 409 with no revision.
C5_ConcurrentSameKeyOneRevision ==
    \A r1, r2 \in ReqIds :
        (SameKeyCreates(r1, r2) /\ Concurrent(r1, r2) /\ Done(r1) /\ Done(r2))
        => /\ Cardinality(StoredWithKey(reqs[r1].track, reqs[r1].key)) = 1
           /\ \A r \in {r1, r2} :
                \/ /\ reqs[r].status = 200
                   /\ \E x \in StoredWithKey(reqs[r].track, reqs[r].key) :
                        reqs[r].ret = x.id /\ reqs[r].retnum = x.revision_number
                \/ reqs[r].status = 409 /\ reqs[r].ret = Null

C5_Witness ==
    \E r1, r2 \in ReqIds :
        /\ SameKeyCreates(r1, r2) /\ Concurrent(r1, r2) /\ Done(r1) /\ Done(r2)
        /\ reqs[r1].status = 200 /\ reqs[r2].status = 409

\* C6: an insert step of createRevision that finds a stored revision with
\* its track and idempotency key ends the call with 409 and leaves the
\* stored revisions as they were.
C6_KeyCollisionIsConflict ==
    [][\A r \in ReqIds :
         (/\ reqs[r].pc = "insert"
          /\ reqs'[r] # reqs[r]
          /\ reqs[r].key # Undefined
          /\ \E x \in track_revisions :
               x.track_id = reqs[r].track /\ x.idempotency_key = reqs[r].key)
         => /\ reqs'[r].status = 409
            /\ track_revisions' = track_revisions]_vars

C6_Witness ==
    \E r \in ReqIds :
        /\ Done(r) /\ reqs[r].op = "createRevision" /\ reqs[r].status = 409
        /\ reqs[r].key # Undefined
        /\ \E x \in track_revisions :
             /\ x.track_id = reqs[r].track /\ x.idempotency_key = reqs[r].key
             /\ x.title # OrNull(reqs[r].title)

\* C7: the step in which a createRevision returns 200 for a track that had
\* no revision and a null active_revision_id leaves the track's
\* active_revision_id equal to the returned revision id.
C7_FirstRevisionPromoted ==
    [][\A r \in ReqIds :
         (/\ reqs[r].status = 0 /\ reqs'[r].status = 200
          /\ reqs'[r].op = "createRevision"
          /\ RevisionsOf(track_revisions, reqs'[r].track) = {}
          /\ tracks[reqs'[r].track].active_revision_id = Null)
         => tracks'[reqs'[r].track].active_revision_id = reqs'[r].ret]_vars

\* C8: no step of a createRevision request changes an active_revision_id
\* that is already set.
C8_CreateKeepsSetPointer ==
    [][\A r \in ReqIds :
         (reqs'[r] # reqs[r] /\ reqs'[r].op = "createRevision")
         => \A t \in TrackIds :
              tracks[t].active_revision_id # Null
              => tracks'[t].active_revision_id = tracks[t].active_revision_id]_vars

C8_Witness ==
    \E r \in ReqIds :
        /\ Done(r) /\ reqs[r].op = "createRevision" /\ reqs[r].status = 200
        /\ reqs[r].retnum >= 2
        /\ tracks[reqs[r].track].active_revision_id \notin {Null, reqs[r].ret}
        /\ \E q \in reqs[r].pred : reqs[q].track = reqs[r].track

\* C9: a member's setActive naming an id that is not a revision of the
\* track changes no track row in any of its steps, and ends with 404.
C9_SetActiveForeignRevisionNotFound ==
    [][\A r \in ReqIds :
         (/\ reqs'[r] # reqs[r]
          /\ reqs'[r].op = "setActive"
          /\ isBandMember(songs[tracks[reqs'[r].track].song_id], reqs'[r].user)
          /\ ~\E x \in track_revisions' :
                x.id = reqs'[r].rev /\ x.track_id = reqs'[r].track)
         => /\ tracks' = tracks
            /\ reqs'[r].pc = "done" => reqs'[r].status = 404]_vars

C9_Witness ==
    \E r \in ReqIds :
        /\ Done(r) /\ reqs[r].op = "setActive" /\ reqs[r].status = 404
        /\ \E x \in track_revisions :
             x.id = reqs[r].rev /\ x.track_id # reqs[r].track

\* C10: every track's active_revision_id is null or the id of a revision of
\* that same track.
C10_ActivePointerOwnRevision ==
    \A t \in TrackIds :
        \/ tracks[t].active_revision_id = Null
        \/ \E x \in track_revisions :
             x.id = tracks[t].active_revision_id /\ x.track_id = t

\* C11: a step changes a track's active_revision_id only when it completes a
\* successful setActive naming the new value, or a successful createRevision
\* that promotes the first revision of a track whose pointer was null; the
\* new value is never null.
C11_PointerMovedOnlyBySetActiveOrPromotion ==
    [][\A t \in TrackIds :
         tracks'[t].active_revision_id # tracks[t].active_revision_id
         => /\ tracks'[t].active_revision_id # Null
            /\ \E r \in ReqIds :
                 /\ reqs'[r] # reqs[r]
                 /\ reqs'[r].track = t
                 /\ reqs'[r].status = 200
                 /\ \/ /\ reqs'[r].op = "setActive"
                       /\ reqs'[r].rev = tracks'[t].active_revision_id
                    \/ /\ reqs'[r].op = "createRevision"
                       /\ reqs'[r].ret = tracks'[t].active_revision_id
                       /\ tracks[t].active_revision_id = Null
                       /\ RevisionsOf(track_revisions, t) = {}]_vars

\* ============================================== tracks and mix sessions
SongIds == {"s1", "s2"}
Bases == {"active", "latest"}

\* identifiers handed out to created tracks and mix sessions
TrackIdSeq == <<"tC", "tD", "tE", "tF">>
SessIdSeq == <<"m1", "m2", "m3", "m4">>
newTrackId(trks) == TrackIdSeq[Cardinality(DOMAIN trks) - Cardinality(TrackIds) + 1]
newSessionId(sessions) == SessIdSeq[Cardinality(sessions) + 1]

\* Head of every worker song handler: select band_id of the song + isBandMember.
AdmitSong(q, nextPc) ==
    IF isBandMember(songs[q.song], q.user)
    THEN [q EXCEPT !.pc = nextPc]
    ELSE [q EXCEPT !.pc = "done", !.status = 403]

NewSongReq(o, u, s) ==
    [IdleReq EXCEPT !.op = o, !.user = u, !.song = s, !.pred = DoneSet]

\* (variant: the tracks are read without the song filter)
AllTracks(trks, songId) == DOMAIN trks

\* from("tracks").select(...).eq("song_id", songId) /
\* state.tracks.filter((t) => t.song_id === songId)
TracksOfSong(trks, songId) == {t \in DOMAIN trks : trks[t].song_id = songId}

WithTrack(trks, id, row) ==
    [t \in DOMAIN trks \cup {id} |-> IF t = id THEN row ELSE trks[t]]

\* ------------------------------------ worker: POST /api/songs/:songId/tracks
WStartCreateTrack(r) ==
    /\ impl = "worker"
    /\ NextSlot(r)
    /\ Cardinality(DOMAIN tracks) - Cardinality(TrackIds) < Len(TrackIdSeq)
    /\ \E u \in Users, s \in SongIds :
         reqs' = [reqs EXCEPT ![r] = AdmitSong(NewSongReq("createTrack", u, s), "readMaxOrder")]
    /\ UNCHANGED <<impl, band_members, songs, tracks, track_revision_counters,
                   track_revisions, sessVars>>

\* order("sort_order", desc).limit(1).maybeSingle();
\* sortOrder = data?.sort_order ? data.sort_order + 1 : 1
WReadMaxOrder(r) ==
    /\ impl = "worker"
    /\ reqs[r].pc = "readMaxOrder"
    /\ LET maxOrder == SetMax({tracks[t].sort_order : t \in TracksOfSong(tracks, reqs[r].song)})
       IN reqs' = [reqs EXCEPT ![r].pc = "insertTrack",
                               ![r].num = IF maxOrder # 0 THEN maxOrder + 1 ELSE 1]
    /\ UNCHANGED <<impl, band_members, songs, tracks, track_revision_counters,
                   track_revisions, sessVars>>

\* (variant: the new track joins every existing session of its song)
SessionRowsJoinedByTrack(rows, sessions, songId, trackId) ==
    rows \cup {[mix_session_id |-> s.id, track_id |-> trackId,
                track_revision_id |-> Null, mute |-> FALSE, gain_db |-> 0,
                pan |-> 0, start_offset_ms |-> 0] :
                  s \in {x \in sessions : x.song_id = songId}}

\* The insert names table tracks only (state.tracks.push(track) in the mock);
\* tracks has no insert trigger: the session rows stay as they are.
SessionRowsAfterTrackInsert(rows, sessions, songId, trackId) == rows

WInsertTrack(r) ==
    /\ impl = "worker"
    /\ reqs[r].pc = "insertTrack"
    /\ LET id == newTrackId(tracks)
       IN /\ tracks' = WithTrack(tracks, id,
                          [song_id |-> reqs[r].song, sort_order |-> reqs[r].num,
                           active_revision_id |-> Null])
          /\ mix_session_tracks' =
                SessionRowsAfterTrackInsert(mix_session_tracks, mix_sessions,
                                            reqs[r].song, id)
          /\ reqs' = [Finish(r, 200, Null, 0) EXCEPT ![r].track = id]
    /\ UNCHANGED <<impl, band_members, songs, track_revision_counters,
                   track_revisions, track_assets, mix_sessions>>

\* -------------------------------------- mock: POST /api/songs/:songId/tracks
MockCreateTrack(r) ==
    /\ impl = "mock"
    /\ NextSlot(r)
    /\ Cardinality(DOMAIN tracks) - Cardinality(TrackIds) < Len(TrackIdSeq)
    /\ \E u \in Users, s \in SongIds :
         LET q == [NewSongReq("createTrack", u, s) EXCEPT !.pc = "done"]
             id == newTrackId(tracks)
             sortOrder == Cardinality(TracksOfSong(tracks, s)) + 1
         IN IF ~isBandMember(songs[s], u)
            THEN /\ reqs' = [reqs EXCEPT ![r] = [q EXCEPT !.status = 403]]
                 /\ UNCHANGED <<tracks, mix_session_tracks>>
            ELSE /\ tracks' = WithTrack(tracks, id,
                                 [song_id |-> s, sort_order |-> sortOrder,
                                  active_revision_id |-> Null])
                 /\ mix_session_tracks' =
                       SessionRowsAfterTrackInsert(mix_session_tracks, mix_sessions, s, id)
                 /\ reqs' = [reqs EXCEPT ![r] =
                               [q EXCEPT !.status = 200, !.track = id, !.num = sortOrder]]
    /\ UNCHANGED <<impl, band_members, songs, track_revision_counters,
                   track_revisions, track_assets, mix_sessions>>

\* ---------------------------------------------------- mix session snapshot
SetMin(S) == CHOOSE m \in S : \A n \in S : m <= n

\* (variant: the pointer is not copied into the snapshot)
SnapshotEntryWithoutPointer(trackId, activeId) ==
    [track_id |-> trackId, track_revision_id |-> Null]

\* base "active": { track_id: t.id, track_revision_id: t.active_revision_id }
ActiveSnapshotEntry(trackId, activeId) ==
    [track_id |-> trackId, track_revision_id |-> activeId]

\* (variant: the rows are ordered by revision_number ascending)
WOldestRevisionId(revs, ids, trackId) ==
    LET rows == {x \in revs : x.track_id \in ids /\ x.track_id = trackId}
    IN IF rows = {} THEN Null
       ELSE (CHOOSE x \in rows :
               x.revision_number = SetMin({y.revision_number : y \in rows})).id

\* base "latest": rows of the listed tracks ordered by revision_number
\* descending; the first row seen for a track wins; map.get(t.id) ?? null
WLatestRevisionId(revs, ids, trackId) ==
    LET rows == {x \in revs : x.track_id \in ids /\ x.track_id = trackId}
    IN IF rows = {} THEN Null
       ELSE (CHOOSE x \in rows :
               x.revision_number = SetMax({y.revision_number : y \in rows})).id

\* latestRevisionId(trackId): filter by track, sort descending, take [0]
latestRevisionId(revs, trackId) ==
    LET revisions == RevisionsOf(revs, trackId)
    IN IF revisions = {} THEN Null
       ELSE (CHOOSE x \in revisions :
               x.revision_number = SetMax(NumbersOf(revs, trackId))).id

\* toSessionTrack(...) plus mix_session_id / the worker's insert literal
toSessionTrack(sessionId, entry) ==
    [mix_session_id |-> sessionId, track_id |-> entry.track_id,
     track_revision_id |-> entry.track_revision_id,
     mute |-> FALSE, gain_db |-> 0, pan |-> 0, start_offset_ms |-> 0]

RowsOfSession(rows, sessionId) == {x \in rows : x.mix_session_id = sessionId}

\* ---------------------------------- worker: POST /api/songs/:songId/sessions
\* (body.name is not modelled)
WStartCreateSession(r) ==
    /\ impl = "worker"
    /\ NextSlot(r)
    /\ Cardinality(mix_sessions) < Len(SessIdSeq)
    /\ \E u \in Users, s \in SongIds, b \in Bases :
         reqs' = [reqs EXCEPT ![r] =
                    AdmitSong([NewSongReq("createSession", u, s) EXCEPT !.base = b],
                              "insertSession")]
    /\ UNCHANGED <<impl, band_members, songs, tracks, track_revision_counters,
                   track_revisions, sessVars>>

WInsertSession(r) ==
    /\ impl = "worker"
    /\ reqs[r].pc = "insertSession"
    /\ LET id == newSessionId(mix_sessions)
       IN /\ mix_sessions' = mix_sessions \cup
                {[id |-> id, song_id |-> reqs[r].song, created_by |-> reqs[r].user]}
          /\ reqs' = [reqs EXCEPT ![r].pc = "readTracks", ![r].sess = id]
    /\ UNCHANGED <<impl, band_members, songs, tracks, track_revision_counters,
                   track_revisions, track_assets, mix_session_tracks>>

\* tracksRes, and for base "active" the snapshot; an empty snapshot skips the
\* insert of the rows and the handler returns.
WReadSessionTracks(r) ==
    /\ impl = "worker"
    /\ reqs[r].pc = "readTracks"
    /\ LET snapshot == {ActiveSnapshotEntry(t, tracks[t].active_revision_id) :
                          t \in TracksOfSong(tracks, reqs[r].song)}
       IN reqs' = IF reqs[r].base = "active"
                  THEN IF snapshot = {}
                       THEN Finish(r, 200, reqs[r].sess, 0)
                       ELSE [reqs EXCEPT ![r].pc = "insertRows", ![r].snap = snapshot]
                  ELSE [reqs EXCEPT ![r].pc = "readLatest", ![r].snap = snapshot]
    /\ UNCHANGED <<impl, band_members, songs, tracks, track_revision_counters,
                   track_revisions, sessVars>>

WReadLatestRevisions(r) ==
    /\ impl = "worker"
    /\ reqs[r].pc = "readLatest"
    /\ LET ids == {e.track_id : e \in reqs[r].snap}
           snapshot == {[track_id |-> t,
                         track_revision_id |-> WLatestRevisionId(track_revisions, ids, t)] :
                          t \in ids}
       IN reqs' = IF snapshot = {}
                  THEN Finish(r, 200, reqs[r].sess, 0)
                  ELSE [reqs EXCEPT ![r].pc = "insertRows", ![r].snap = snapshot]
    /\ UNCHANGED <<impl, band_members, songs, tracks, track_revision_counters,
                   track_revisions, sessVars>>

WInsertSessionTracks(r) ==
    /\ impl = "worker"
    /\ reqs[r].pc = "insertRows"
    /\ mix_session_tracks' = mix_session_tracks \cup
           {toSessionTrack(reqs[r].sess, e) : e \in reqs[r].snap}
    /\ reqs' = Finish(r, 200, reqs[r].sess, 0)
    /\ UNCHANGED <<impl, band_members, songs, tracks, track_revision_counters,
                   track_revisions, track_assets, mix_sessions>>

\* ------------------------------------ mock: POST /api/songs/:songId/sessions
\* No song lookup and no membership check precede the push.
MockCreateSession(r) ==
    /\ impl = "mock"
    /\ NextSlot(r)
    /\ Cardinality(mix_sessions) < Len(SessIdSeq)
    /\ \E u \in Users, s \in SongIds, b \in Bases :
         LET id == newSessionId(mix_sessions)
             rows == {[track_id |-> t,
                       track_revision_id |->
                           IF b = "latest" THEN latestRevisionId(track_revisions, t)
                           ELSE tracks[t].active_revision_id] :
                        t \in TracksOfSong(tracks, s)}
         IN /\ mix_sessions' = mix_sessions \cup
                  {[id |-> id, song_id |-> s, created_by |-> u]}
            /\ mix_session_tracks' = mix_session_tracks \cup
                  {toSessionTrack(id, e) : e \in rows}
            /\ reqs' = [reqs EXCEPT ![r] =
                          [NewSongReq("createSession", u, s) EXCEPT
                             !.base = b, !.sess = id, !.snap = rows,
                             !.pc = "done", !.status = 200, !.ret = id]]
    /\ UNCHANGED <<impl, band_members, songs, tracks, track_revision_counters,
                   track_revisions, track_assets>>

\* ------------------------------------------- replacing the session tracks
\* updateSessionTracksSchema: the ranges of the playback parameters
GainDbMin == -60
GainDbMax == 12
PanMin == -1
PanMax == 1
StartOffsetMin == 0
StartOffsetMax == 600000

\* Entries a PUT body can carry (all fields present, whole numbers): tA with
\* custom values inside the ranges, tA with the defaults, tB at the edges of
\* the ranges, tA with pan and start_offset_ms outside them, and tB with the
\* defaults and a revision of tA.
PutEntries ==
    {[track_id |-> "tA", track_revision_id |-> newId(2), mute |-> TRUE,
      gain_db |-> -6, pan |-> 1, start_offset_ms |-> 250],
     [track_id |-> "tA", track_revision_id |-> Null, mute |-> FALSE,
      gain_db |-> 0, pan |-> 0, start_offset_ms |-> 0],
     [track_id |-> "tB", track_revision_id |-> Null, mute |-> FALSE,
      gain_db |-> GainDbMax, pan |-> PanMin, start_offset_ms |-> StartOffsetMax],
     [track_id |-> "tA", track_revision_id |-> newId(1), mute |-> FALSE,
      gain_db |-> 0, pan |-> 2, start_offset_ms |-> -1],
     [track_id |-> "tB", track_revision_id |-> newId(1), mute |-> FALSE,
      gain_db |-> 0, pan |-> 0, start_offset_ms |-> 0]}

\* body.tracks: zero, one or two entries; an entry is not repeated verbatim
\* (the tables are sets of rows), but two entries may name the same track.
PutLists ==
    {<<>>} \cup {<<a>> : a \in PutEntries}
           \cup {l \in {<<a, b>> : a, b \in PutEntries} : l[1] # l[2]}

\* the element schema of updateSessionTracksSchema
EntryInSchema(e) ==
    /\ e.gain_db >= GainDbMin /\ e.gain_db <= GainDbMax
    /\ e.pan >= PanMin /\ e.pan <= PanMax
    /\ e.start_offset_ms >= StartOffsetMin /\ e.start_offset_ms <= StartOffsetMax

\* zValidator("json", updateSessionTracksSchema); .max(256) is out of reach
\* of lists this short.
updateSessionTracksSchema(list) == \A i \in DOMAIN list : EntryInSchema(list[i])

SessionTrackRow(sessionId, e) ==
    [mix_session_id |-> sessionId, track_id |-> e.track_id,
     track_revision_id |-> e.track_revision_id, mute |-> e.mute,
     gain_db |-> e.gain_db, pan |-> e.pan, start_offset_ms |-> e.start_offset_ms]

ListRows(sessionId, list) == {SessionTrackRow(sessionId, list[i]) : i \in DOMAIN list}
ListedTracks(list) == {list[i].track_id : i \in DOMAIN list}

\* Sessions a caller can name: one whose createSession has returned (or that
\* was in the store from the start), or none.
KnownSessions ==
    {s.id : s \in {x \in mix_sessions :
                     ~\E q \in ReqIds : /\ reqs[q].op = "createSession"
                                        /\ reqs[q].sess = x.id
                                        /\ ~Done(q)}}
    \cup {NoSuchId}

SessionById(sessions, id) == {x \in sessions : x.id = id}

\* upsert(rows, { onConflict: "mix_session_id,track_id" }) =
\* INSERT ... ON CONFLICT (mix_session_id, track_id) DO UPDATE: a row with the
\* key of a listed one is overwritten, every other row stays.  Two listed rows
\* with one key fail the statement ("cannot affect row a second time"), and so
\* does a track_id or track_revision_id that references nothing.
UpsertSessionTracks(rows, sessionId, list) ==
    IF \/ Cardinality(ListedTracks(list)) # Len(list)
       \/ \E i \in DOMAIN list :
             \/ list[i].track_id \notin DOMAIN tracks
             \/ ~ActiveRevisionFkOk(track_revisions, list[i].track_revision_id)
    THEN [error |-> "500", rows |-> rows]
    ELSE [error |-> Null,
          rows |-> {x \in rows : ~(/\ x.mix_session_id = sessionId
                                   /\ x.track_id \in ListedTracks(list))}
                   \cup ListRows(sessionId, list)]

\* ----------------------------- worker: PUT /api/sessions/:sessionId/tracks
WStartReplaceSessionTracks(r) ==
    /\ impl = "worker"
    /\ NextSlot(r)
    /\ \E u \in Users, id \in KnownSessions, list \in PutLists :
         LET q == [NewSongReq("replaceSessionTracks", u, Null) EXCEPT
                     !.sess = id, !.list = list]
             session == SessionById(mix_sessions, id)
         IN reqs' = [reqs EXCEPT ![r] =
                IF ~updateSessionTracksSchema(list)
                THEN [q EXCEPT !.pc = "done", !.status = 400]
                ELSE IF session = {}
                THEN [q EXCEPT !.pc = "done", !.status = 404]
                ELSE IF ~isBandMember(songs[(CHOOSE x \in session : TRUE).song_id], u)
                THEN [q EXCEPT !.pc = "done", !.status = 403]
                ELSE [q EXCEPT !.pc = "upsert"]]
    /\ UNCHANGED <<impl, band_members, songs, tracks, track_revision_counters,
                   track_revisions, sessVars>>

WUpsertSessionTracks(r) ==
    /\ impl = "worker"
    /\ reqs[r].pc = "upsert"
    /\ LET upsertRes == UpsertSessionTracks(mix_session_tracks, reqs[r].sess, reqs[r].list)
       IN /\ mix_session_tracks' = upsertRes.rows
          /\ reqs' = IF upsertRes.error # Null
                     THEN Finish(r, 500, Null, 0)
                     ELSE Finish(r, 200, Null, 0)
    /\ UNCHANGED <<impl, band_members, songs, tracks, track_revision_counters,
                   track_revisions, track_assets, mix_sessions>>

\* ------------------------------- mock: PUT /api/sessions/:sessionId/tracks
\* No schema and no membership check; every row of the session is dropped and
\* one row per entry is pushed.  Boolean(t.mute) and Number(t.x ?? 0) leave
\* the booleans and numbers of PutEntries as they are.
MockReplaceSessionTracks(r) ==
    /\ impl = "mock"
    /\ NextSlot(r)
    /\ \E u \in Users, id \in KnownSessions, list \in PutLists :
         LET q == [NewSongReq("replaceSessionTracks", u, Null) EXCEPT
                     !.sess = id, !.list = list, !.pc = "done"]
         IN IF SessionById(mix_sessions, id) = {}
            THEN /\ reqs' = [reqs EXCEPT ![r] = [q EXCEPT !.status = 404]]
                 /\ UNCHANGED mix_session_tracks
            ELSE /\ mix_session_tracks' =
                       {x \in mix_session_tracks : x.mix_session_id # id}
                       \cup ListRows(id, list)
                 /\ reqs' = [reqs EXCEPT ![r] = [q EXCEPT !.status = 200]]
    /\ UNCHANGED <<impl, band_members, songs, tracks, track_revision_counters,
                   track_revisions, track_assets, mix_sessions>>

\* ------------------------------------------- specification of mix sessions
\* The store once the band has worked on song s1: track tA has revisions r1
\* (#1) and r2 (#2), track tB has none, song s2 has no track.  In the mock the
\* first revision was promoted on creation, so tA's pointer is r1 or (after a
\* setActive) r2; the worker promotes nothing, so there it may also be null.
\* The worker's counter row of tA stands at 2; the mock keeps no counters.
SeedRevision(n) ==
    [id |-> newId(n), track_id |-> "tA", revision_number |-> n,
     title |-> Null, memo |-> Null, idempotency_key |-> Null, created_by |-> "u1"]

SessInit ==
    /\ impl \in Impls
    /\ band_members = {[band_id |-> "b1", user_id |-> "u1"]}
    /\ songs = [s \in SongIds |-> "b1"]
    /\ track_revisions = {SeedRevision(1), SeedRevision(2)}
    /\ \E a \in {Null, newId(1), newId(2)} :
         /\ impl = "mock" => a # Null
         /\ tracks = [t \in TrackIds |->
                        [song_id |-> "s1", sort_order |-> IF t = "tA" THEN 1 ELSE 2,
                         active_revision_id |-> IF t = "tA" THEN a ELSE Null]]
    /\ track_revision_counters =
         [t \in TrackIds |-> IF impl = "worker" /\ t = "tA" THEN 2 ELSE 0]
    /\ track_assets = {}
    /\ mix_sessions = {}
    /\ mix_session_tracks = {}
    /\ reqs = [r \in ReqIds |-> IdleReq]

\* Revision and pointer requests of band member u1 without idempotency key,
\* title or memo (the other inputs are explored by Spec).
Plain(q) == q.user = "u1" /\ q.key = Undefined /\ q.title = Undefined

SStartCreateRevision(r) == WStartCreateRevision(r) /\ Plain(reqs'[r])
SMockCreateRevision(r) == MockCreateRevision(r) /\ Plain(reqs'[r])
SStartSetActive(r) == WStartSetActive(r) /\ Plain(reqs'[r])
SMockSetActive(r) == MockSetActive(r) /\ Plain(reqs'[r])

SessNext ==
    \E r \in ReqIds :
        \/ SStartCreateRevision(r)
        \/ WAllocate(r)
        \/ WInsertRevision(r)
        \/ SStartSetActive(r)
        \/ WSelectRevision(r)
        \/ WUpdateActive(r)
        \/ SMockCreateRevision(r)
        \/ SMockSetActive(r)
        \/ WStartCreateTrack(r)
        \/ WReadMaxOrder(r)
        \/ WInsertTrack(r)
        \/ MockCreateTrack(r)
        \/ WStartCreateSession(r)
        \/ WInsertSession(r)
        \/ WReadSessionTracks(r)
        \/ WReadLatestRevisions(r)
        \/ WInsertSessionTracks(r)
        \/ MockCreateSession(r)
        \/ WStartReplaceSessionTracks(r)
        \/ WUpsertSessionTracks(r)
        \/ MockReplaceSessionTracks(r)

SessSpec == SessInit /\ [][SessNext]_vars

\* ------------------------------------------------------ claims on sessions
\* Request r is a createSession with the given base whose snapshot is taken
\* in this step: the worker's read of the revisions / of the tracks, or the
\* whole mock handler.
SnapshotTaken(r, base, fromPc) ==
    /\ reqs'[r].op = "createSession"
    /\ reqs'[r].base = base
    /\ reqs[r].pc \in {fromPc, "idle"}
    /\ reqs'[r].pc \in {"insertRows", "done"}
    /\ reqs'[r].status \in {0, 200}

\* Request r is a createSession that completes successfully in this step.
SessionCreated(r) ==
    /\ reqs'[r].op = "createSession"
    /\ reqs[r].pc # "done"
    /\ reqs'[r].pc = "done"
    /\ reqs'[r].status = 200

\* C12: createSession with base "latest" takes, for every track it lists, the
\* revision with the highest revision_number that track has when the
\* revisions are read, or null if the track has none, never a revision of
\* another track; and the rows it stores carry exactly the revisions taken.
C12_LatestSnapshotIsHighestRevision ==
    [][\A r \in ReqIds :
         /\ SnapshotTaken(r, "latest", "readLatest") =>
              \A e \in reqs'[r].snap :
                 IF RevisionsOf(track_revisions, e.track_id) = {}
                 THEN e.track_revision_id = Null
                 ELSE \E x \in RevisionsOf(track_revisions, e.track_id) :
                         /\ x.id = e.track_revision_id
                         /\ \A y \in RevisionsOf(track_revisions, e.track_id) :
                               y.revision_number <= x.revision_number
         /\ (SessionCreated(r) /\ reqs'[r].base = "latest") =>
              \A row \in RowsOfSession(mix_session_tracks', reqs'[r].sess) :
                 \E e \in reqs'[r].snap :
                    /\ row.track_id = e.track_id
                    /\ row.track_revision_id = e.track_revision_id]_vars

C12_Witness ==
    \E r \in ReqIds :
        /\ Done(r) /\ reqs[r].op = "createSession" /\ reqs[r].status = 200
        /\ reqs[r].base = "latest"
        /\ \E a, b \in RowsOfSession(mix_session_tracks, reqs[r].sess) :
              /\ a.track_id = "tA" /\ a.track_revision_id = newId(2)
              /\ tracks["tA"].active_revision_id = newId(1)
              /\ b.track_id = "tB" /\ b.track_revision_id = Null


\* C13: createSession with base "active" takes, for every track it lists, the
\* track's active_revision_id as it stands when the tracks are read (null
\* included), and the rows it stores carry exactly the values taken.
C13_ActiveSnapshotIsPointer ==
    [][\A r \in ReqIds :
         /\ SnapshotTaken(r, "active", "readTracks") =>
              \A e \in reqs'[r].snap :
                 e.track_revision_id = tracks[e.track_id].active_revision_id
         /\ (SessionCreated(r) /\ reqs'[r].base = "active") =>
              \A row \in RowsOfSession(mix_session_tracks', reqs'[r].sess) :
                 \E e \in reqs'[r].snap :
                    /\ row.track_id = e.track_id
                    /\ row.track_revision_id = e.track_revision_id]_vars

C13_Witness ==
    \E r \in ReqIds :
        /\ Done(r) /\ reqs[r].op = "createSession" /\ reqs[r].status = 200
        /\ reqs[r].base = "active"
        /\ \E a, b \in RowsOfSession(mix_session_tracks, reqs[r].sess) :
              /\ a.track_id = "tA" /\ a.track_revision_id = newId(1)
              /\ latestRevisionId(track_revisions, "tA") # newId(1)
              /\ b.track_id = "tB" /\ b.track_revision_id = Null


\* Request r is a createSession that reads the tracks of its song in this step.
TracksRead(r) ==
    /\ reqs'[r].op = "createSession"
    /\ reqs[r].pc \in {"readTracks", "idle"}
    /\ reqs'[r].pc \in {"readLatest", "insertRows", "done"}
    /\ reqs'[r].status \in {0, 200}

\* C14: a successful createSession lists exactly the tracks that belong to
\* its song when it reads them, keeps that list while it resolves revisions,
\* and stores for the new session exactly one row per listed track and no
\* other row, each with mute = false, gain_db = 0, pan = 0 and
\* start_offset_ms = 0; for a song without tracks the session has no rows.
C14_OneDefaultRowPerSongTrack ==
    [][\A r \in ReqIds :
         /\ TracksRead(r) =>
              {e.track_id : e \in reqs'[r].snap} =
                 {t \in DOMAIN tracks : tracks[t].song_id = reqs'[r].song}
         /\ (reqs[r].pc = "readLatest" /\ reqs'[r].pc # "readLatest") =>
              {e.track_id : e \in reqs'[r].snap} = {e.track_id : e \in reqs[r].snap}
         /\ SessionCreated(r) =>
              LET rows == RowsOfSession(mix_session_tracks', reqs'[r].sess)
                  listed == {e.track_id : e \in reqs'[r].snap}
              IN /\ {x.track_id : x \in rows} = listed
                 /\ Cardinality(rows) = Cardinality(listed)
                 /\ \A x \in rows :
                       /\ x.mute = FALSE /\ x.gain_db = 0
                       /\ x.pan = 0 /\ x.start_offset_ms = 0
                 /\ \E s \in mix_sessions' :
                       s.id = reqs'[r].sess /\ s.song_id = reqs'[r].song]_vars

C14_Witness ==
    \E p, q \in ReqIds :
        /\ Done(p) /\ reqs[p].op = "createSession" /\ reqs[p].status = 200
        /\ reqs[p].song = "s1"
        /\ {x.track_id : x \in RowsOfSession(mix_session_tracks, reqs[p].sess)}
              = {"tA", "tB"}
        /\ Done(q) /\ reqs[q].op = "createSession" /\ reqs[q].status = 200
        /\ reqs[q].song = "s2"
        /\ RowsOfSession(mix_session_tracks, reqs[q].sess) = {}


\* Request r is a replaceSessionTracks that completes successfully in this step.
Replaced(r) ==
    /\ reqs'[r].op = "replaceSessionTracks"
    /\ reqs[r].pc # "done"
    /\ reqs'[r].pc = "done"
    /\ reqs'[r].status = 200

\* C15: when replaceSessionTracks(session, L) succeeds, the rows of the
\* session are exactly the entries of L: a row of a track that L does not
\* list is gone, and every listed track has the revision id and the
\* parameters given in L.
C15_ReplaceRowsExactlyList ==
    [][\A r \in ReqIds :
         Replaced(r) =>
            RowsOfSession(mix_session_tracks', reqs'[r].sess)
               = ListRows(reqs'[r].sess, reqs'[r].list)]_vars


\* a successful createSession request that was complete when q started
CreatedBefore(q) ==
    {p \in reqs[q].pred : reqs[p].op = "createSession" /\ reqs[p].status = 200}

\* C16: no step of a setActive or createRevision request changes a
\* mix-session-track row: the track_revision_id and the playback parameters
\* of every existing row stay as they were stored.
C16_PointerAndRevisionsLeaveSessionRows ==
    [][\A r \in ReqIds :
         (reqs'[r] # reqs[r] /\ reqs'[r].op \in {"setActive", "createRevision"})
            => mix_session_tracks' = mix_session_tracks]_vars

C16_Witness ==
    \E q \in ReqIds :
        /\ Done(q) /\ reqs[q].op = "setActive" /\ reqs[q].status = 200
        /\ reqs[q].track = "tA"
        /\ \E p \in CreatedBefore(q) :
              /\ reqs[p].base = "active"
              /\ \E x \in RowsOfSession(mix_session_tracks, reqs[p].sess) :
                    /\ x.track_id = "tA"
                    /\ x.track_revision_id # reqs[q].rev
                    /\ tracks["tA"].active_revision_id = reqs[q].rev

\* C17: no step of a createTrack request changes the rows of a mix session:
\* a track created in a song after a session of that song has no row in it.
C17_CreateTrackLeavesSessionRows ==
    [][\A r \in ReqIds :
         (reqs'[r] # reqs[r] /\ reqs'[r].op = "createTrack")
            => mix_session_tracks' = mix_session_tracks]_vars

C17_Witness ==
    \E q \in ReqIds :
        /\ Done(q) /\ reqs[q].op = "createTrack" /\ reqs[q].status = 200
        /\ \E p \in CreatedBefore(q) :
              /\ reqs[p].song = reqs[q].song
              /\ tracks[reqs[q].track].song_id = reqs[p].song
              /\ {x.track_id : x \in RowsOfSession(mix_session_tracks, reqs[p].sess)}
                    = {"tA", "tB"}


\* C18: in every reachable state each mix session has at most one row per
\* track, whatever createSession and replaceSessionTracks calls were made
\* (a replace whose list names one track twice included).
C18_OneRowPerSessionTrack ==
    \A x, y \in mix_session_tracks :
        (x.mix_session_id = y.mix_session_id /\ x.track_id = y.track_id) => x = y

\* C19: every stored mix-session-track row has gain_db, pan and
\* start_offset_ms inside the ranges of the schema, and a step of a
\* replaceSessionTracks request whose list has a value outside them rejects
\* the request and leaves the rows as they were.
C19_StoredParametersInRange ==
    [][/\ \A x \in mix_session_tracks' :
             /\ GainDbMin <= x.gain_db /\ x.gain_db <= GainDbMax
             /\ PanMin <= x.pan /\ x.pan <= PanMax
             /\ StartOffsetMin <= x.start_offset_ms
             /\ x.start_offset_ms <= StartOffsetMax
       /\ \A r \in ReqIds :
             (/\ reqs'[r] # reqs[r]
              /\ reqs'[r].op = "replaceSessionTracks"
              /\ \E i \in DOMAIN reqs'[r].list :
                    \/ reqs'[r].list[i].pan < PanMin
                    \/ reqs'[r].list[i].pan > PanMax
                    \/ reqs'[r].list[i].start_offset_ms < StartOffsetMin
                    \/ reqs'[r].list[i].start_offset_ms > StartOffsetMax
                    \/ reqs'[r].list[i].gain_db < GainDbMin
                    \/ reqs'[r].list[i].gain_db > GainDbMax)
             => /\ reqs'[r].pc = "done"
                /\ reqs'[r].status # 200
                /\ mix_session_tracks' = mix_session_tracks]_vars


\* ================================================================= assets
\* Two of the asset types of assetTypeSchema; format, content_type, s3_key,
\* byte_size and the audio properties of an asset are not modelled.
AssetTypes == {"audio_preview", "midi"}
AssetIdSeq == <<"a1", "a2", "a3", "a4">>
newAssetId(assets) == AssetIdSeq[Cardinality(assets) + 1]

\* byte_size: NoSize stands for an absent body field and for a stored NULL
\* (body.byte_size ?? null); the schemas admit positive integers only.
NoSize == 0
PresignSizes == {NoSize, 5}
CompleteSizes == {NoSize, 7}
FileSize == 3

AssetsOfType(assets, revisionId, assetType) ==
    {x \in assets : x.track_revision_id = revisionId /\ x.asset_type = assetType}

AssetById(assets, id) == {x \in assets : x.id = id}

WithStatus(assets, id, status) ==
    {IF x.id = id THEN [x EXCEPT !.status = status] ELSE x : x \in assets}

WithSize(assets, id, size) ==
    {IF x.id = id THEN [x EXCEPT !.byte_size = size] ELSE x : x \in assets}

\* (variant: the table lacks unique(track_revision_id, asset_type))
InsertAssetUnchecked(assets, row) == [error |-> Null, rows |-> assets \cup {row}]

\* insert(...).select("*").single() under unique(track_revision_id, asset_type)
InsertAsset(assets, row) ==
    IF \E x \in assets : /\ x.track_revision_id = row.track_revision_id
                         /\ x.asset_type = row.asset_type
    THEN [error |-> "23505", rows |-> assets]
    ELSE [error |-> Null, rows |-> assets \cup {row}]

\* (variant: every insert error is answered 500)
PresignErrorAlways500(code) == 500

\* assetInsert.error.code === "23505" -> 409, any other error -> 500
PresignErrorStatus(code) == IF code = "23505" THEN 409 ELSE 500

\* getRevisionWithBand: the revision joined with its track and song
getRevisionWithBand(revisionId) ==
    {[id |-> x.id, track_id |-> x.track_id,
      band_id |-> songs[tracks[x.track_id].song_id]] :
        x \in {y \in track_revisions : y.id = revisionId}}

\* getAssetWithBand: the asset joined with its revision, track and song
getAssetWithBand(assetId) ==
    {[id |-> a.id,
      band_id |-> songs[tracks[(CHOOSE x \in track_revisions :
                                  x.id = a.track_revision_id).track_id].song_id]] :
        a \in AssetById(track_assets, assetId)}

KnownAssets == {x.id : x \in track_assets} \cup {NoSuchId}

NewAssetReq(o, u) == [IdleReq EXCEPT !.op = o, !.user = u, !.pred = DoneSet]

\* --------------------- worker: POST /api/revisions/:revisionId/assets/presign
WStartPresignAsset(r) ==
    /\ impl = "worker"
    /\ NextSlot(r)
    /\ Cardinality(track_assets) < Len(AssetIdSeq)
    /\ \E u \in Users, id \in KnownIds, ty \in AssetTypes, size \in PresignSizes :
         LET q == [NewAssetReq("presignAsset", u) EXCEPT
                     !.rev = id, !.atype = ty, !.num = size]
             revisionRes == getRevisionWithBand(id)
         IN reqs' = [reqs EXCEPT ![r] =
                IF revisionRes = {}
                THEN [q EXCEPT !.pc = "done", !.status = 404]
                ELSE IF ~isBandMember((CHOOSE x \in revisionRes : TRUE).band_id, u)
                THEN [q EXCEPT !.pc = "done", !.status = 403]
                ELSE [q EXCEPT !.pc = "insertAsset"]]
    /\ UNCHANGED <<impl, band_members, songs, tracks, track_revision_counters,
                   track_revisions, sessVars>>

\* insert with a fresh id and status "pending"; unique(track_revision_id,
\* asset_type) turns a second asset of the type into error 23505 -> 409.
WInsertAsset(r) ==
    /\ impl = "worker"
    /\ reqs[r].pc = "insertAsset"
    /\ LET assetId == newAssetId(track_assets)
           assetInsert == InsertAsset(track_assets,
                             [id |-> assetId, track_revision_id |-> reqs[r].rev,
                              asset_type |-> reqs[r].atype, status |-> "pending",
                              byte_size |-> reqs[r].num])
       IN /\ track_assets' = assetInsert.rows
          /\ reqs' = IF assetInsert.error # Null
                     THEN Finish(r, PresignErrorStatus(assetInsert.error), Null, 0)
                     ELSE [Finish(r, 200, assetId, 0) EXCEPT ![r].asset = assetId]
    /\ UNCHANGED <<impl, band_members, songs, tracks, track_revision_counters,
                   track_revisions, mix_sessions, mix_session_tracks>>

\* ------------------------------ worker: POST /api/assets/:assetId/complete
WStartCompleteAsset(r) ==
    /\ impl = "worker"
    /\ NextSlot(r)
    /\ \E u \in Users, id \in KnownAssets, size \in CompleteSizes :
         LET q == [NewAssetReq("completeAsset", u) EXCEPT !.asset = id, !.num = size]
             assetRes == getAssetWithBand(id)
         IN reqs' = [reqs EXCEPT ![r] =
                IF assetRes = {}
                THEN [q EXCEPT !.pc = "done", !.status = 404]
                ELSE IF ~isBandMember((CHOOSE x \in assetRes : TRUE).band_id, u)
                THEN [q EXCEPT !.pc = "done", !.status = 403]
                ELSE [q EXCEPT !.pc = "updateAsset"]]
    /\ UNCHANGED <<impl, band_members, songs, tracks, track_revision_counters,
                   track_revisions, sessVars>>

\* (variant: the update leaves byte_size alone)
CompleteKeepsSize(stored, size) == stored

\* update({ byte_size: body.byte_size, ... }): an absent field is not sent
\* and the column keeps its value; the mock: body.byte_size ?? asset.byte_size
CompleteSize(stored, size) == IF size = NoSize THEN stored ELSE size

Completed(assets, id, size) ==
    {IF x.id = id
     THEN [x EXCEPT !.status = "ready", !.byte_size = CompleteSize(@, size)]
     ELSE x : x \in assets}

WUpdateAsset(r) ==
    /\ impl = "worker"
    /\ reqs[r].pc = "updateAsset"
    /\ track_assets' = Completed(track_assets, reqs[r].asset, reqs[r].num)
    /\ reqs' = Finish(r, 200, reqs[r].asset, 0)
    /\ UNCHANGED <<impl, band_members, songs, tracks, track_revision_counters,
                   track_revisions, mix_sessions, mix_session_tracks>>

\* ----------------------- mock: POST /api/revisions/:id/assets/presign
\* No membership check; an asset of the same revision and type is reused and
\* set back to "pending".
MockPresignAsset(r) ==
    /\ impl = "mock"
    /\ NextSlot(r)
    /\ Cardinality(track_assets) < Len(AssetIdSeq)
    /\ \E u \in Users, id \in KnownIds, ty \in AssetTypes, size \in PresignSizes :
         LET q == [NewAssetReq("presignAsset", u) EXCEPT
                     !.rev = id, !.atype = ty, !.num = size, !.pc = "done"]
             sameType == AssetsOfType(track_assets, id, ty)
             assetId == newAssetId(track_assets)
         IN IF {y \in track_revisions : y.id = id} = {}
            THEN /\ reqs' = [reqs EXCEPT ![r] = [q EXCEPT !.status = 404]]
                 /\ UNCHANGED track_assets
            ELSE IF sameType # {}
            THEN LET a == CHOOSE x \in sameType : TRUE
                 IN /\ track_assets' = WithStatus(track_assets, a.id, "pending")
                    /\ reqs' = [reqs EXCEPT ![r] =
                                  [q EXCEPT !.status = 200, !.ret = a.id, !.asset = a.id]]
            ELSE /\ track_assets' = track_assets \cup
                       {[id |-> assetId, track_revision_id |-> id,
                         asset_type |-> ty, status |-> "pending",
                         byte_size |-> size]}
                 /\ reqs' = [reqs EXCEPT ![r] =
                               [q EXCEPT !.status = 200, !.ret = assetId, !.asset = assetId]]
    /\ UNCHANGED <<impl, band_members, songs, tracks, track_revision_counters,
                   track_revisions, mix_sessions, mix_session_tracks>>

\* ------------------------------------ mock: POST /api/assets/:id/complete
MockCompleteAsset(r) ==
    /\ impl = "mock"
    /\ NextSlot(r)
    /\ \E u \in Users, id \in KnownAssets, size \in CompleteSizes :
         LET q == [NewAssetReq("completeAsset", u) EXCEPT
                     !.asset = id, !.num = size, !.pc = "done"]
         IN IF AssetById(track_assets, id) = {}
            THEN /\ reqs' = [reqs EXCEPT ![r] = [q EXCEPT !.status = 404]]
                 /\ UNCHANGED track_assets
            ELSE /\ track_assets' = Completed(track_assets, id, size)
                 /\ reqs' = [reqs EXCEPT ![r] = [q EXCEPT !.status = 200, !.ret = id]]
    /\ UNCHANGED <<impl, band_members, songs, tracks, track_revision_counters,
                   track_revisions, mix_sessions, mix_session_tracks>>

\* mockUploadAssetFile(assetId, file): status "uploaded", byte_size file.size,
\* whatever the status of the asset was
mockUploadAssetFile(r) ==
    /\ impl = "mock"
    /\ NextSlot(r)
    /\ \E u \in Users, id \in KnownAssets :
         LET q == [NewAssetReq("uploadAssetFile", u) EXCEPT
                     !.asset = id, !.num = FileSize, !.pc = "done"]
         IN IF AssetById(track_assets, id) = {}
            THEN /\ reqs' = [reqs EXCEPT ![r] = [q EXCEPT !.status = 404]]
                 /\ UNCHANGED track_assets
            ELSE /\ track_assets' =
                       WithSize(WithStatus(track_assets, id, "uploaded"), id, FileSize)
                 /\ reqs' = [reqs EXCEPT ![r] = [q EXCEPT !.status = 200, !.ret = id]]
    /\ UNCHANGED <<impl, band_members, songs, tracks, track_revision_counters,
                   track_revisions, mix_sessions, mix_session_tracks>>

\* -------------------------------------------------- specification of assets
\* The store of SessInit's song and revisions; the first presign for
\* (r1, audio_preview) may already have been answered with asset a1, which
\* may have been uploaded (mock) and completed since.
AssetInit ==
    /\ impl \in Impls
    /\ band_members = {[band_id |-> "b1", user_id |-> "u1"]}
    /\ songs = [s \in SongIds |-> "b1"]
    /\ track_revisions = {SeedRevision(1), SeedRevision(2)}
    /\ tracks = [t \in TrackIds |->
                   [song_id |-> "s1", sort_order |-> IF t = "tA" THEN 1 ELSE 2,
                    active_revision_id |-> IF t = "tA" THEN newId(1) ELSE Null]]
    /\ track_revision_counters =
         [t \in TrackIds |-> IF impl = "worker" /\ t = "tA" THEN 2 ELSE 0]
    /\ \E st \in {"none", "pending", "uploaded", "ready"} :
         /\ impl = "worker" => st # "uploaded"
         /\ track_assets =
              IF st = "none" THEN {}
              ELSE {[id |-> newAssetId({}), track_revision_id |-> newId(1),
                     asset_type |-> "audio_preview", status |-> st,
                     byte_size |-> IF st = "pending" THEN NoSize
                                   ELSE IF st = "uploaded" THEN FileSize ELSE 7]}
    /\ mix_sessions = {}
    /\ mix_session_tracks = {}
    /\ reqs = [r \in ReqIds |-> IdleReq]

AssetNext ==
    \E r \in ReqIds :
        \/ WStartPresignAsset(r)
        \/ WInsertAsset(r)
        \/ WStartCompleteAsset(r)
        \/ WUpdateAsset(r)
        \/ MockPresignAsset(r)
        \/ MockCompleteAsset(r)
        \/ mockUploadAssetFile(r)

AssetSpec == AssetInit /\ [][AssetNext]_vars

\* C20: a presignAsset by a band member for a revision and asset type that
\* already have an asset (the one an earlier presignAsset returned) succeeds,
\* returns the asset_id of that asset, and leaves the asset in status
\* pending, whatever its status was (ready after a completeAsset included).
C20_PresignReusesAssetAndResets ==
    [][\A r \in ReqIds :
         (/\ reqs'[r].op = "presignAsset"
          /\ reqs[r].pc # "done" /\ reqs'[r].pc = "done"
          /\ reqs'[r].user = "u1"
          /\ AssetsOfType(track_assets, reqs'[r].rev, reqs'[r].atype) # {})
         => /\ reqs'[r].status = 200
            /\ \E x \in AssetsOfType(track_assets, reqs'[r].rev, reqs'[r].atype) :
                  reqs'[r].ret = x.id
            /\ \A x \in AssetsOfType(track_assets', reqs'[r].rev, reqs'[r].atype) :
                  x.status = "pending"]_vars


\* C21: in every reachable state there is at most one asset per pair of
\* revision and asset type, whatever presignAsset and completeAsset calls
\* were made and however their steps interleaved.
C21_OneAssetPerRevisionAndType ==
    \A x, y \in track_assets :
        (x.track_revision_id = y.track_revision_id /\ x.asset_type = y.asset_type)
           => x = y

C21_Witness ==
    \E p, q \in ReqIds :
        /\ p # q
        /\ Done(p) /\ Done(q)
        /\ reqs[p].op = "presignAsset" /\ reqs[q].op = "presignAsset"
        /\ reqs[p].user = "u1" /\ reqs[q].user = "u1"
        /\ reqs[p].rev = newId(2) /\ reqs[q].rev = newId(2)
        /\ reqs[p].atype = reqs[q].atype
        /\ p \notin reqs[q].pred
        /\ Cardinality({x \in track_assets : /\ x.track_revision_id = newId(2)
                                             /\ x.asset_type = reqs[p].atype}) = 1


\* Request r with operation o completes successfully in this step.
Succeeds(r, o) ==
    /\ reqs'[r].op = o
    /\ reqs[r].pc # "done"
    /\ reqs'[r].pc = "done"
    /\ reqs'[r].status = 200

\* C22: when a presignAsset succeeds the asset it returns is in status
\* pending; when a completeAsset carrying a byte_size succeeds the asset is in
\* status ready and stores that byte_size.
C22_PresignPendingCompleteReady ==
    [][\A r \in ReqIds :
         /\ Succeeds(r, "presignAsset") =>
              \E x \in track_assets' :
                 x.id = reqs'[r].ret /\ x.status = "pending"
         /\ (Succeeds(r, "completeAsset") /\ reqs'[r].num # NoSize) =>
              \E x \in track_assets' :
                 /\ x.id = reqs'[r].asset
                 /\ x.status = "ready"
                 /\ x.byte_size = reqs'[r].num]_vars

C22_Witness ==
    \E p, q \in ReqIds :
        /\ Done(p) /\ reqs[p].op = "presignAsset" /\ reqs[p].status = 200
        /\ reqs[p].num # NoSize
        /\ Done(q) /\ reqs[q].op = "completeAsset" /\ reqs[q].status = 200
        /\ p \in reqs[q].pred
        /\ reqs[q].asset = reqs[p].ret
        /\ reqs[q].num # NoSize /\ reqs[q].num # reqs[p].num
        /\ \E x \in track_assets :
              x.id = reqs[p].ret /\ x.status = "ready" /\ x.byte_size = reqs[q].num


\* Request q is one of the core operations and the target it names exists
\* (for replaceSessionTracks the body also passes the schema, which is
\* applied before the handler runs).  Tracks and songs always exist.
TargetExists(q) ==
    CASE q.op = "presignAsset" -> \E x \in track_revisions : x.id = q.rev
      [] q.op = "completeAsset" -> \E x \in track_assets : x.id = q.asset
      [] q.op = "replaceSessionTracks" ->
            /\ \E x \in mix_sessions : x.id = q.sess
            /\ \A i \in DOMAIN q.list :
                  /\ GainDbMin <= q.list[i].gain_db /\ q.list[i].gain_db <= GainDbMax
                  /\ PanMin <= q.list[i].pan /\ q.list[i].pan <= PanMax
                  /\ StartOffsetMin <= q.list[i].start_offset_ms
                  /\ q.list[i].start_offset_ms <= StartOffsetMax
      [] q.op \in {"createRevision", "setActive", "createSession"} -> TRUE
      [] OTHER -> FALSE

\* C23: every step of a request made by a user who is not a member of the
\* band that owns the (existing) target ends the request with Forbidden and
\* changes no table.
C23_NonMemberForbiddenNoChange ==
    [][\A r \in ReqIds :
         (/\ reqs'[r] # reqs[r]
          /\ ~(\E m \in band_members : m.band_id = "b1" /\ m.user_id = reqs'[r].user)
          /\ TargetExists(reqs'[r]))
         => /\ reqs'[r].pc = "done"
            /\ reqs'[r].status = 403
            /\ UNCHANGED <<tracks, track_revision_counters, track_revisions,
                           track_assets, mix_sessions, mix_session_tracks>>]_vars


\* ================================ failing storage calls of createSession
\* Each awaited call of the worker's createSession handler may come back with
\* an error; the handler then returns 500 at once.  Nothing undoes the
\* writes of the calls that came before.
WInsertSessionFails(r) ==
    /\ impl = "worker"
    /\ reqs[r].pc = "insertSession"
    /\ reqs' = Finish(r, 500, Null, 0)
    /\ UNCHANGED <<impl, band_members, songs, tracks, track_revision_counters,
                   track_revisions, sessVars>>

WReadSessionTracksFails(r) ==
    /\ impl = "worker"
    /\ reqs[r].pc = "readTracks"
    /\ reqs' = Finish(r, 500, Null, 0)
    /\ UNCHANGED <<impl, band_members, songs, tracks, track_revision_counters,
                   track_revisions, sessVars>>

WReadLatestRevisionsFails(r) ==
    /\ impl = "worker"
    /\ reqs[r].pc = "readLatest"
    /\ reqs' = Finish(r, 500, Null, 0)
    /\ UNCHANGED <<impl, band_members, songs, tracks, track_revision_counters,
                   track_revisions, sessVars>>

WInsertSessionTracksFails(r) ==
    /\ impl = "worker"
    /\ reqs[r].pc = "insertRows"
    /\ reqs' = Finish(r, 500, Null, 0)
    /\ UNCHANGED <<impl, band_members, songs, tracks, track_revision_counters,
                   track_revisions, sessVars>>

SessFailNext ==
    \E r \in ReqIds :
        \/ WStartCreateSession(r)
        \/ WInsertSession(r)
        \/ WInsertSessionFails(r)
        \/ WReadSessionTracks(r)
        \/ WReadSessionTracksFails(r)
        \/ WReadLatestRevisions(r)
        \/ WReadLatestRevisionsFails(r)
        \/ WInsertSessionTracks(r)
        \/ WInsertSessionTracksFails(r)
        \/ MockCreateSession(r)

SessFailSpec == SessInit /\ [][SessFailNext]_vars

\* C24: a createSession that reported a failure has left no mix session row,
\* and every mix session row belongs to a createSession that has completed
\* successfully (so that it is visible only together with its rows).
C24_FailedCreateSessionLeavesNothing ==
    /\ \A r \in ReqIds :
          (Done(r) /\ reqs[r].op = "createSession" /\ reqs[r].status # 200)
             => ~\E s \in mix_sessions : s.id = reqs[r].sess
    /\ \A s \in mix_sessions :
          \E r \in ReqIds :
             /\ reqs[r].op = "createSession" /\ reqs[r].sess = s.id
             /\ Done(r) /\ reqs[r].status = 200


\* ============================ replaceSessionTracks on an existing session
\* The store of SessInit after createSession(s1, base "active") has returned
\* session m1 with its two default rows.
ReplInit ==
    /\ impl \in Impls
    /\ band_members = {[band_id |-> "b1", user_id |-> "u1"]}
    /\ songs = [s \in SongIds |-> "b1"]
    /\ track_revisions = {SeedRevision(1), SeedRevision(2)}
    /\ tracks = [t \in TrackIds |->
                   [song_id |-> "s1", sort_order |-> IF t = "tA" THEN 1 ELSE 2,
                    active_revision_id |-> IF t = "tA" THEN newId(1) ELSE Null]]
    /\ track_revision_counters =
         [t \in TrackIds |-> IF impl = "worker" /\ t = "tA" THEN 2 ELSE 0]
    /\ track_assets = {}
    /\ mix_sessions = {[id |-> newSessionId({}), song_id |-> "s1", created_by |-> "u1"]}
    /\ mix_session_tracks =
         {toSessionTrack(newSessionId({}),
                         ActiveSnapshotEntry(t, tracks[t].active_revision_id)) :
            t \in TrackIds}
    /\ reqs = [r \in ReqIds |-> IdleReq]

ReplNext ==
    \E r \in ReqIds :
        \/ WStartReplaceSessionTracks(r)
        \/ WUpsertSessionTracks(r)
        \/ MockReplaceSessionTracks(r)

ReplSpec == ReplInit /\ [][ReplNext]_vars

\* C25: once two concurrent replaceSessionTracks calls on one session have
\* both succeeded, the rows of the session are exactly the list of one of
\* them, never a mixture of the two lists.
C25_ConcurrentReplaceOneListWins ==
    \A p, q \in ReqIds :
        (/\ Concurrent(p, q)
         /\ reqs[p].op = "replaceSessionTracks" /\ reqs[q].op = "replaceSessionTracks"
         /\ Done(p) /\ Done(q)
         /\ reqs[p].status = 200 /\ reqs[q].status = 200
         /\ reqs[p].sess = reqs[q].sess)
        => \/ RowsOfSession(mix_session_tracks, reqs[p].sess)
                 = ListRows(reqs[p].sess, reqs[p].list)
           \/ RowsOfSession(mix_session_tracks, reqs[p].sess)
                 = ListRows(reqs[q].sess, reqs[q].list)


\* C26: no step changes or removes a stored revision: every row of
\* track_revisions is still there after the step with the same track_id,
\* revision_number, title, memo and idempotency key.
C26_RevisionsImmutable ==
    [][\A x \in track_revisions :
         \E y \in track_revisions' :
            /\ y.id = x.id
            /\ y.track_id = x.track_id
            /\ y.revision_number = x.revision_number
            /\ y.title = x.title
            /\ y.memo = x.memo
            /\ y.idempotency_key = x.idempotency_key]_vars

C26_Witness ==
    \E p, q \in ReqIds :
        /\ Done(p) /\ reqs[p].op = "createRevision" /\ reqs[p].status = 200
        /\ reqs[p].title # Undefined
        /\ Done(q) /\ reqs[q].op = "createRevision" /\ reqs[q].status = 200
        /\ p \in reqs[q].pred
        /\ reqs[q].track = reqs[p].track
        /\ reqs[q].title = Undefined
        /\ \E x, y \in track_revisions :
              /\ x.id = reqs[p].ret /\ x.revision_number = 1 /\ x.title = reqs[p].title
              /\ y.id = reqs[q].ret /\ y.revision_number = 2


Methods == {"GET", "POST", "OPTIONS"}
HealthPath == <<"api", "health">>
Paths == {HealthPath, <<"api", "songs">>,
          <<"api", "assets", "a1", "stream">>, <<"api", "assets", "a1", "complete">>}
Headers == {[scheme |-> "", cred |-> ""],
            [scheme |-> "Bearer ", cred |-> "tok-u1"],
            [scheme |-> "Bearer ", cred |-> "tok-bad"],
            [scheme |-> "Basic ", cred |-> "tok-u1"]}
QueryTokens == {"", "tok-u1", "tok-bad"}

\* anonClient.auth.getUser(token): the user of the token, or an error
getUser(token) == IF token = "tok-u1" THEN "u1" ELSE Null

\* cors(...) on "/*": a preflight request is answered by the cors middleware
\* itself and reaches neither the auth middleware nor a route.
IsPreflight(method) == method = "OPTIONS"

\* auth?.startsWith("Bearer ") ? auth.slice(7) : ""
bearerToken(header) == IF header.scheme = "Bearer " THEN header.cred ELSE ""

\* (variant: the query token is read on every path)
QueryTokenEverywhere(path, query) == query

\* c.req.path.endsWith("/stream") ? queryToken || "" : ""
StreamQueryToken(path, query) ==
    IF Len(path) > 0 /\ path[Len(path)] = "stream" THEN query ELSE ""

\* bearerToken || (...)
RequestToken(header, path, query) ==
    IF bearerToken(header) # "" THEN bearerToken(header)
    ELSE StreamQueryToken(path, query)

\* The routes registered for the modelled paths; anything else is not found.
Route(method, path) ==
    CASE method = "GET" /\ path = HealthPath -> "health"
      [] method = "GET" /\ path = <<"api", "songs">> -> "listSongs"
      [] method = "POST" /\ path = <<"api", "songs">> -> "createSong"
      [] method = "GET" /\ path = <<"api", "assets", "a1", "stream">> -> "streamAsset"
      [] method = "POST" /\ path = <<"api", "assets", "a1", "complete">> -> "completeAsset"
      [] OTHER -> "notFound"

\* One request through cors, the auth middleware and the router.  ret names
\* the route handler that ran (Null = none), user the userId set for it.
WHandleRequest(r) ==
    /\ impl = "worker"
    /\ NextSlot(r)
    /\ \E m \in Methods, p \in Paths, h \in Headers, t \in QueryTokens :
         LET q == [IdleReq EXCEPT !.op = "http", !.pc = "done", !.pred = DoneSet,
                                  !.method = m, !.path = p, !.header = h, !.query = t]
             token == RequestToken(h, p, t)
             routed == [q EXCEPT !.status = IF Route(m, p) = "notFound" THEN 404 ELSE 200,
                                 !.ret = IF Route(m, p) = "notFound" THEN Null
                                         ELSE Route(m, p)]
         IN reqs' = [reqs EXCEPT ![r] =
                IF IsPreflight(m) THEN [q EXCEPT !.status = 204]
                ELSE IF p = HealthPath THEN routed
                ELSE IF token = "" THEN [q EXCEPT !.status = 401]
                ELSE IF getUser(token) = Null THEN [q EXCEPT !.status = 401]
                ELSE [routed EXCEPT !.user = getUser(token)]]
    /\ UNCHANGED <<impl, band_members, songs, tracks, track_revision_counters,
                   track_revisions, sessVars>>

AuthInit ==
    /\ impl = "worker"
    /\ band_members = {[band_id |-> "b1", user_id |-> "u1"]}
    /\ songs = [s \in SongIds |-> "b1"]
    /\ track_revisions = {SeedRevision(1), SeedRevision(2)}
    /\ tracks = [t \in TrackIds |->
                   [song_id |-> "s1", sort_order |-> IF t = "tA" THEN 1 ELSE 2,
                    active_revision_id |-> Null]]
    /\ track_revision_counters = [t \in TrackIds |-> IF t = "tA" THEN 2 ELSE 0]
    /\ track_assets = {[id |-> newAssetId({}), track_revision_id |-> newId(1),
                        asset_type |-> "audio_preview", status |-> "ready",
                        byte_size |-> FileSize]}
    /\ mix_sessions = {}
    /\ mix_session_tracks = {}
    /\ reqs = [r \in ReqIds |-> IdleReq]

AuthNext == \E r \in ReqIds : WHandleRequest(r)

AuthSpec == AuthInit /\ [][AuthNext]_vars


\* the Authorization header carries a Bearer token of a user
BearerValid(q) == q.header.scheme = "Bearer " /\ q.header.cred = "tok-u1"

EndsInStream(q) == Len(q.path) > 0 /\ q.path[Len(q.path)] = "stream"

HttpDone(r) == reqs[r].op = "http" /\ Done(r)

\* C28 (as stated): every request other than GET /api/health that carries no
\* valid token, or carries one only in the query of a path not ending in
\* /stream, is answered 401 and reaches no handler; a query token on a
\* /stream path without a Bearer token authenticates its user.
C28_NoTokenAlways401 ==
    \A r \in ReqIds :
        HttpDone(r) =>
           /\ (/\ ~(reqs[r].method = "GET" /\ reqs[r].path = HealthPath)
               /\ ~BearerValid(reqs[r])
               /\ (reqs[r].query # "tok-u1" \/ ~EndsInStream(reqs[r])))
              => (reqs[r].status = 401 /\ reqs[r].ret = Null)
           /\ (/\ reqs[r].method = "GET"
               /\ EndsInStream(reqs[r])
               /\ reqs[r].header.scheme # "Bearer "
               /\ reqs[r].query = "tok-u1")
              => (reqs[r].ret = "streamAsset" /\ reqs[r].user = "u1")

\* C28 (amended): the same, except that the answer is 401 only when the
\* request is not a CORS preflight (OPTIONS, answered 204) and its path is
\* not /api/health (any method; no route but GET, so 404 otherwise); no
\* handler other than the health check ever runs for such a request.
C28_NoTokenNeverHandled ==
    \A r \in ReqIds :
        HttpDone(r) =>
           /\ (/\ ~BearerValid(reqs[r])
               /\ (reqs[r].query # "tok-u1" \/ ~EndsInStream(reqs[r])))
              => /\ reqs[r].ret \in {Null, "health"}
                 /\ reqs[r].user = Null
                 /\ (reqs[r].method # "OPTIONS" /\ reqs[r].path # HealthPath)
                       => reqs[r].status = 401
           /\ (/\ reqs[r].method = "GET"
               /\ EndsInStream(reqs[r])
               /\ reqs[r].header.scheme # "Bearer "
               /\ reqs[r].query = "tok-u1")
              => (reqs[r].ret = "streamAsset" /\ reqs[r].user = "u1")

C28_Witness ==
    \E p, q \in ReqIds :
        /\ HttpDone(p) /\ HttpDone(q)
        /\ reqs[p].query = "tok-u1" /\ reqs[q].query = "tok-u1"
        /\ reqs[p].header.scheme = "" /\ reqs[q].header.scheme = ""
        /\ reqs[p].method = "POST" /\ ~EndsInStream(reqs[p]) /\ reqs[p].status = 401
        /\ reqs[q].method = "GET" /\ EndsInStream(reqs[q]) /\ reqs[q].status = 200


\* C29: every step that changes the status of an asset follows the life
\* cycle: to pending by a presignAsset, from pending to uploaded by the
\* upload, from pending or uploaded to ready by a completeAsset, to failed on
\* error; in particular nothing but pending or uploaded becomes ready and
\* ready never becomes uploaded.
C29_AssetStatusLifecycle ==
    [][\A x \in track_assets : \A y \in track_assets' :
         (y.id = x.id /\ y.status # x.status) =>
            \/ y.status = "pending"
            \/ x.status = "pending" /\ y.status = "uploaded"
            \/ x.status \in {"pending", "uploaded"} /\ y.status = "ready"
            \/ y.status = "failed"]_vars


\* C30: setActive is last-writer-wins. Whenever a setActive call succeeds,
\* the pointer of its track is, right after that step, the revision the call
\* named, and that revision belongs to the track; a pointer that is set is
\* changed by nothing but a successful setActive on its track; so after any
\* interleaving the pointer is the revision of the call committed last, and
\* at every state on the way it is unset or a revision of its own track.
C30_SetActiveLastWriterWins ==
    [][/\ \A r \in ReqIds :
            Succeeds(r, "setActive") =>
               /\ tracks'[reqs'[r].track].active_revision_id = reqs'[r].rev
               /\ \E x \in track_revisions' :
                     x.id = reqs'[r].rev /\ x.track_id = reqs'[r].track
       /\ \A t \in DOMAIN tracks :
            (tracks[t].active_revision_id # Null
               /\ tracks'[t].active_revision_id # tracks[t].active_revision_id) =>
               \E r \in ReqIds : Succeeds(r, "setActive") /\ reqs'[r].track = t
       /\ \A t \in DOMAIN tracks' :
            tracks'[t].active_revision_id # Null =>
               \E x \in track_revisions' :
                  x.id = tracks'[t].active_revision_id /\ x.track_id = t]_vars

\* Two concurrent setActive calls on tA naming different revisions of tA have
\* both succeeded.
C30_Witness ==
    \E p, q \in ReqIds :
       /\ Concurrent(p, q)
       /\ reqs[p].op = "setActive" /\ reqs[q].op = "setActive"
       /\ reqs[p].track = reqs[q].track
       /\ reqs[p].rev # reqs[q].rev
       /\ Done(p) /\ Done(q)
       /\ reqs[p].status = 200 /\ reqs[q].status = 200
       /\ tracks[reqs[p].track].active_revision_id \in {reqs[p].rev, reqs[q].rev}


\* C31: allocation is scoped per track.  A step of a createRevision on track
\* t leaves the counter and the stored revisions of every other track as
\* they were, and the number it allocates is one more than the last number
\* allocated for t (the worker's counter row of t), whatever requests on
\* other tracks have done in between.
C31_AllocationScopedPerTrack ==
    [][\A r \in ReqIds :
         (reqs'[r] # reqs[r] /\ reqs'[r].op = "createRevision") =>
            /\ \A b \in TrackIds \ {reqs'[r].track} :
                  /\ track_revision_counters'[b] = track_revision_counters[b]
                  /\ RevisionsOf(track_revisions', b) = RevisionsOf(track_revisions, b)
            /\ (reqs[r].pc = "allocate" /\ reqs'[r].pc = "insert") =>
                  /\ reqs'[r].num = track_revision_counters[reqs[r].track] + 1
                  /\ track_revision_counters'[reqs[r].track] = reqs'[r].num]_vars

\* Two concurrent createRevision calls on different tracks have both
\* returned number 1.
C31_Witness ==
    \E p, q \in ReqIds :
       /\ Concurrent(p, q)
       /\ reqs[p].op = "createRevision" /\ reqs[q].op = "createRevision"
       /\ reqs[p].track # reqs[q].track
       /\ Done(p) /\ Done(q)
       /\ reqs[p].status = 200 /\ reqs[q].status = 200
       /\ reqs[p].retnum = 1 /\ reqs[q].retnum = 1
       /\ track_revision_counters[reqs[p].track] = 1
       /\ track_revision_counters[reqs[q].track] = 1


\* a createRevision by a member on track t carrying key k
KeyedCreate(r, t, k) ==
    /\ MemberCreate(r)
    /\ reqs[r].track = t
    /\ reqs[r].key = k

\* C32: idempotency keys are scoped to the track.  When the only
\* createRevision carrying key k on track A and the only one carrying the
\* same k on another track B have both returned, both returned 200, with
\* two distinct revisions, each stored under its own track with the number
\* the call returned; and no successful createRevision ever returns a
\* revision of a track other than its own.
C32_KeyScopedToTrack ==
    /\ \A p, q \in ReqIds :
         (/\ reqs[p].key # Undefined
          /\ KeyedCreate(p, reqs[p].track, reqs[p].key)
          /\ KeyedCreate(q, reqs[q].track, reqs[p].key)
          /\ reqs[p].track # reqs[q].track
          /\ Done(p) /\ Done(q)
          /\ \A o \in ReqIds \ {p, q} :
                ~KeyedCreate(o, reqs[o].track, reqs[p].key))
         => /\ reqs[p].status = 200 /\ reqs[q].status = 200
            /\ reqs[p].ret # reqs[q].ret
            /\ \A r \in {p, q} :
                 \E x \in track_revisions :
                    /\ x.id = reqs[r].ret
                    /\ x.track_id = reqs[r].track
                    /\ x.revision_number = reqs[r].retnum
    /\ \A r \in ReqIds :
         (reqs[r].op = "createRevision" /\ Done(r) /\ reqs[r].status = 200)
         => \E x \in track_revisions :
               x.id = reqs[r].ret /\ x.track_id = reqs[r].track

\* The worker has answered two createRevision calls that carried the same
\* non-empty key on different tracks, the second started after the first
\* returned.
C32_Witness ==
    \E p, q \in ReqIds :
       /\ impl = "worker"
       /\ KeyedCreate(p, "tA", "k") /\ KeyedCreate(q, "tB", "k")
       /\ p \in reqs[q].pred
       /\ Done(q)
       /\ reqs[p].status = 200 /\ reqs[q].status = 200
       /\ \E x, y \in track_revisions :
             /\ x.id = reqs[p].ret /\ y.id = reqs[q].ret /\ x # y
             /\ x.idempotency_key = "k" /\ y.idempotency_key = "k"


\* C33: in the worker, for every key the request schema accepts (the empty
\* string included), a createRevision that starts after an earlier
\* successful one on the same track with the same key has returned, returns
\* 200 with that revision's id and number and allocates no number.
C33_RetryForEverySchemaKey ==
    \A p, q \in ReqIds :
       (/\ impl = "worker"
        /\ reqs[p].key # Undefined
        /\ KeyedCreate(p, reqs[p].track, reqs[p].key)
        /\ KeyedCreate(q, reqs[p].track, reqs[p].key)
        /\ p \in reqs[q].pred
        /\ reqs[p].status = 200
        /\ Done(q))
       => /\ reqs[q].status = 200
          /\ reqs[q].ret = reqs[p].ret
          /\ reqs[q].retnum = reqs[p].retnum
          /\ reqs[q].num = 0


\* C34: every stored mix-session-track row names a track of the song of its
\* mix session.
C34_SessionRowsNameTracksOfSong ==
    \A x \in mix_session_tracks :
       \A s \in SessionById(mix_sessions, x.mix_session_id) :
          /\ x.track_id \in DOMAIN tracks
          /\ tracks[x.track_id].song_id = s.song_id


\* C35: the track_revision_id of every stored mix-session-track row is null
\* or the id of a revision of the row's own track.
C35_SessionRowRevisionOfOwnTrack ==
    \A x \in mix_session_tracks :
       x.track_revision_id # Null =>
          \E v \in track_revisions :
             v.id = x.track_revision_id /\ v.track_id = x.track_id


\* every createRevision started so far carries no key, and no two of them
\* overlap
SequentialKeylessCreates ==
    \A p, q \in ReqIds :
       (reqs[p].op = "createRevision" /\ reqs[q].op = "createRevision") =>
          /\ reqs[p].key = Undefined
          /\ p # q => ~Concurrent(p, q)

\* successful createRevision calls on the track of r that returned before r
\* started
EarlierCreates(r) ==
    {p \in reqs[r].pred : /\ reqs[p].op = "createRevision"
                          /\ reqs[p].track = reqs[r].track
                          /\ reqs[p].status = 200}

\* C36: in a sequential run of keyless createRevision calls, both
\* implementations give every successful call the number "successful calls
\* on its track before it, plus one"; and the number the worker's counter
\* hands out is the number the mock's rule (highest stored number of the
\* track plus one) computes from the same stored revisions.
C36_MockNumberingMatchesWorker ==
    SequentialKeylessCreates =>
       \A r \in ReqIds :
          /\ (reqs[r].op = "createRevision" /\ Done(r) /\ reqs[r].status = 200)
                => reqs[r].retnum = Cardinality(EarlierCreates(r)) + 1
          /\ (impl = "worker" /\ reqs[r].pc = "insert")
                => reqs[r].num = MockNextRevisionNumber(track_revisions, reqs[r].track)

\* A keyless createRevision that started after another one on the same track
\* had returned was given number 2.
C36_Witness ==
    /\ SequentialKeylessCreates
    /\ \E r \in ReqIds :
          /\ reqs[r].op = "createRevision" /\ Done(r)
          /\ reqs[r].status = 200
          /\ EarlierCreates(r) # {}
          /\ reqs[r].retnum = 2


\* C37: no two tracks of one song carry the same sort_order.
C37_SortOrderUniqueInSong ==
    \A a, b \in DOMAIN tracks :
       (a # b /\ tracks[a].song_id = tracks[b].song_id) =>
          tracks[a].sort_order # tracks[b].sort_order


\* ------------------------------------------- web client: uploadAsset flow
\* uploadAsset(trackId, assetType, file) of the song page awaits, in program
\* order, createRevision, setActive, presignAsset, the byte upload and
\* completeAsset; any rejected await lands in the catch block, which only
\* records the message.  A slot of reqs holds one run of the flow: pc is the
\* call it is about to make, steps the calls that have resolved.  The calls
\* of one flow address the revision and the asset that flow created, rows no
\* other flow names, so each call is one step; only the worker's
\* createRevision, whose counter is shared by the flows on a track, is taken
\* in its two database calls.
FlowOrder == <<"createRevision", "setActive", "presignAsset", "upload", "completeAsset">>

FlowFailed(r, code) ==
    [reqs EXCEPT ![r].pc = "failed", ![r].status = code]

FlowResolved(r, step, nextPc) ==
    [reqs EXCEPT ![r].pc = nextPc, ![r].steps = @ \cup {step}]

FlowStart(r) ==
    /\ NextSlot(r)
    /\ \E u \in Users, t \in TrackIds, ty \in AssetTypes :
         reqs' = [reqs EXCEPT ![r] =
                    [NewReq("uploadAsset", u, t) EXCEPT
                       !.atype = ty, !.num = FileSize, !.pc = "createRevision"]]
    /\ UNCHANGED <<impl, band_members, songs, tracks, track_revision_counters,
                   track_revisions, sessVars>>

\* POST /api/tracks/:trackId/revisions with body {}
FlowCreateRevision(r) ==
    /\ reqs[r].op = "uploadAsset"
    /\ reqs[r].pc = "createRevision"
    /\ IF ~Member(r)
       THEN /\ reqs' = FlowFailed(r, 403)
            /\ UNCHANGED <<tracks, track_revision_counters, track_revisions>>
       ELSE IF impl = "worker"
       THEN LET n == allocate_track_revision_number(
                        track_revision_counters[reqs[r].track])
            IN /\ track_revision_counters' =
                     CounterRowWritten(track_revision_counters, reqs[r].track, n)
               /\ reqs' = [reqs EXCEPT ![r].pc = "insertRevision", ![r].retnum = n]
               /\ UNCHANGED <<tracks, track_revisions>>
       ELSE LET row == [id |-> newId(Cardinality(track_revisions) + 1),
                        track_id |-> reqs[r].track,
                        revision_number |->
                           MockNextRevisionNumber(track_revisions, reqs[r].track),
                        title |-> Null, memo |-> Null, idempotency_key |-> Null,
                        created_by |-> reqs[r].user]
            IN /\ track_revisions' = track_revisions \cup {row}
               /\ tracks' = [tracks EXCEPT ![reqs[r].track].active_revision_id =
                                MockPromote(@, row.id)]
               /\ reqs' = [FlowResolved(r, "createRevision", "setActive")
                             EXCEPT ![r].rev = row.id,
                                    ![r].retnum = row.revision_number]
               /\ UNCHANGED track_revision_counters
    /\ UNCHANGED <<impl, band_members, songs, sessVars>>

FlowInsertRevision(r) ==
    /\ impl = "worker"
    /\ reqs[r].op = "uploadAsset"
    /\ reqs[r].pc = "insertRevision"
    /\ LET row == [id |-> newId(Cardinality(track_revisions) + 1),
                   track_id |-> reqs[r].track,
                   revision_number |-> reqs[r].retnum,
                   title |-> Null, memo |-> Null, idempotency_key |-> Null,
                   created_by |-> reqs[r].user]
           revisionRes == InsertRevision(track_revisions, row)
       IN /\ track_revisions' = revisionRes.rows
          /\ reqs' = IF revisionRes.error = "23505"
                     THEN FlowFailed(r, 409)
                     ELSE [FlowResolved(r, "createRevision", "setActive")
                             EXCEPT ![r].rev = row.id]
    /\ UNCHANGED <<impl, band_members, songs, tracks, track_revision_counters,
                   sessVars>>

\* POST /api/tracks/:trackId/active with the id createRevision returned
FlowSetActive(r) ==
    /\ reqs[r].op = "uploadAsset"
    /\ reqs[r].pc = "setActive"
    /\ LET found == IF impl = "worker"
                    THEN SelectRevisionOfTrack(track_revisions, reqs[r].rev, reqs[r].track)
                    ELSE MockFindRevision(track_revisions, reqs[r].rev, reqs[r].track)
       IN IF found = {}
          THEN /\ reqs' = FlowFailed(r, 404)
               /\ UNCHANGED tracks
          ELSE /\ tracks' = UpdateActiveRevision(tracks, reqs[r].track, reqs[r].rev)
               /\ reqs' = FlowResolved(r, "setActive", "presignAsset")
    /\ UNCHANGED <<impl, band_members, songs, track_revision_counters,
                   track_revisions, sessVars>>

\* POST /api/revisions/:revisionId/assets/presign with byte_size file.size
FlowPresign(r) ==
    /\ reqs[r].op = "uploadAsset"
    /\ reqs[r].pc = "presignAsset"
    /\ LET assetId == newAssetId(track_assets)
           row == [id |-> assetId, track_revision_id |-> reqs[r].rev,
                   asset_type |-> reqs[r].atype, status |-> "pending",
                   byte_size |-> reqs[r].num]
           sameType == AssetsOfType(track_assets, reqs[r].rev, reqs[r].atype)
           assetInsert == InsertAsset(track_assets, row)
       IN IF impl = "worker"
          THEN /\ track_assets' = assetInsert.rows
               /\ reqs' = IF assetInsert.error # Null
                          THEN FlowFailed(r, PresignErrorStatus(assetInsert.error))
                          ELSE [FlowResolved(r, "presignAsset", "upload")
                                  EXCEPT ![r].asset = assetId]
          ELSE IF sameType # {}
          THEN LET a == CHOOSE x \in sameType : TRUE
               IN /\ track_assets' = WithStatus(track_assets, a.id, "pending")
                  /\ reqs' = [FlowResolved(r, "presignAsset", "upload")
                                EXCEPT ![r].asset = a.id]
          ELSE /\ track_assets' = track_assets \cup {row}
               /\ reqs' = [FlowResolved(r, "presignAsset", "upload")
                             EXCEPT ![r].asset = assetId]
    /\ UNCHANGED <<impl, band_members, songs, tracks, track_revision_counters,
                   track_revisions, mix_sessions, mix_session_tracks>>

\* (variant: the response of the PUT is not looked at)
AfterUploadUnchecked(ok) == "complete"

\* if (!putRes.ok) throw new Error(`Upload failed: ...`)
AfterUpload(ok) == IF ok THEN "complete" ELSE "failed"

\* mock: mockUploadAssetFile(presign.asset_id, file); worker: PUT of the file
\* to presign.upload_url, which answers ok or not and writes no table.
FlowUpload(r) ==
    /\ reqs[r].op = "uploadAsset"
    /\ reqs[r].pc = "upload"
    /\ IF impl = "mock"
       THEN /\ track_assets' =
                 WithSize(WithStatus(track_assets, reqs[r].asset, "uploaded"),
                          reqs[r].asset, reqs[r].num)
            /\ reqs' = FlowResolved(r, "upload", "complete")
       ELSE /\ \E ok \in BOOLEAN :
                 reqs' = [reqs EXCEPT
                            ![r].pc = AfterUpload(ok),
                            ![r].steps = IF ok THEN @ \cup {"upload"} ELSE @,
                            ![r].status = IF ok THEN @ ELSE 500]
            /\ UNCHANGED track_assets
    /\ UNCHANGED <<impl, band_members, songs, tracks, track_revision_counters,
                   track_revisions, mix_sessions, mix_session_tracks>>

\* POST /api/assets/:assetId/complete with byte_size file.size
FlowComplete(r) ==
    /\ reqs[r].op = "uploadAsset"
    /\ reqs[r].pc = "complete"
    /\ IF AssetById(track_assets, reqs[r].asset) = {}
       THEN /\ reqs' = FlowFailed(r, 404)
            /\ UNCHANGED track_assets
       ELSE /\ track_assets' = Completed(track_assets, reqs[r].asset, reqs[r].num)
            /\ reqs' = [FlowResolved(r, "completeAsset", "done") EXCEPT ![r].status = 200]
    /\ UNCHANGED <<impl, band_members, songs, tracks, track_revision_counters,
                   track_revisions, mix_sessions, mix_session_tracks>>

\* apiFetch throws (no session token, a response that is not ok, a rejected
\* fetch) before the handler has written anything.
FlowCallFails(r) ==
    /\ reqs[r].op = "uploadAsset"
    /\ reqs[r].pc \in {"createRevision", "setActive", "presignAsset", "complete"}
    /\ reqs' = FlowFailed(r, 500)
    /\ UNCHANGED <<impl, band_members, songs, tracks, track_revision_counters,
                   track_revisions, sessVars>>

FlowNext ==
    \E r \in ReqIds :
       \/ FlowStart(r)
       \/ FlowCreateRevision(r)
       \/ FlowInsertRevision(r)
       \/ FlowSetActive(r)
       \/ FlowPresign(r)
       \/ FlowUpload(r)
       \/ FlowComplete(r)
       \/ FlowCallFails(r)

FlowSpec == Init /\ [][FlowNext]_vars


\* the first n calls of the flow
FlowPrefix(n) == {FlowOrder[i] : i \in 1..n}

\* C38: the calls of an uploadAsset flow resolve strictly in the order
\* createRevision, setActive, presignAsset, upload, completeAsset (so
\* completeAsset is made only after the upload succeeded); a flow that has
\* failed makes no further call; and an asset a flow created is ready only
\* when that flow's upload resolved and the flow did not fail.
C38_UploadFlowOrdered ==
    [][\A r \in ReqIds :
         reqs'[r].op = "uploadAsset" =>
            /\ \E n \in 0..Len(FlowOrder) : reqs'[r].steps = FlowPrefix(n)
            /\ reqs'[r].steps # reqs[r].steps =>
                  reqs'[r].steps =
                     reqs[r].steps \cup {FlowOrder[Cardinality(reqs[r].steps) + 1]}
            /\ reqs[r].pc = "failed" => reqs'[r] = reqs[r]
            /\ \A a \in track_assets' :
                  (a.id = reqs'[r].asset /\ a.status = "ready") =>
                     /\ "upload" \in reqs'[r].steps
                     /\ reqs'[r].pc # "failed"]_vars

\* One flow has run to its end with its asset ready while another flow on
\* the same track failed after its presign and left its asset pending.
C38_Witness ==
    \E p, q \in ReqIds :
       /\ reqs[p].op = "uploadAsset" /\ reqs[q].op = "uploadAsset"
       /\ reqs[p].track = reqs[q].track
       /\ reqs[p].pc = "done" /\ reqs[p].steps = FlowPrefix(Len(FlowOrder))
       /\ \E a \in track_assets : a.id = reqs[p].asset /\ a.status = "ready"
       /\ reqs[q].pc = "failed" /\ reqs[q].steps = FlowPrefix(3)
       /\ \E a \in track_assets : a.id = reqs[q].asset /\ a.status = "pending"


\* --------------------------------------- web client: getPreviewAssetId
\* The song page keeps what loadAll and selectSession returned: tracks,
\* revisionsByTrack (every revision with its track_assets) and sessionTracks
\* (the rows of the selected session keyed by track id, {} while no session
\* is selected).  The tables stand for that loaded state.
AssetStatuses == {"pending", "uploaded", "ready", "failed"}

\* a ?? b
Nullish(a, b) == IF a \in {Null, Undefined} THEN b ELSE a

\* sessionTracks[trackId]?.track_revision_id
SessionRevisionOf(rows, sessionId, trackId) ==
    LET st == {x \in rows : x.mix_session_id = sessionId /\ x.track_id = trackId}
    IN IF st = {} THEN Undefined ELSE (CHOOSE x \in st : TRUE).track_revision_id

\* tracks.find((t) => t.id === trackId)?.active_revision_id
ActiveRevisionOf(trks, trackId) ==
    IF trackId \in DOMAIN trks THEN trks[trackId].active_revision_id ELSE Undefined

\* (variant: the status of the asset is not looked at)
FindAssetAnyStatus(assets, revisionId, assetType) ==
    AssetsOfType(assets, revisionId, assetType)

\* revision.track_assets.find((a) => a.asset_type === type && a.status === "ready")
FindReadyAsset(assets, revisionId, assetType) ==
    {a \in AssetsOfType(assets, revisionId, assetType) : a.status = "ready"}

IdOrUndefined(found) == IF found = {} THEN Undefined ELSE (CHOOSE a \in found : TRUE).id

getPreviewAssetId(trackId, sessionId, rows, trks, revs, assets) ==
    LET targetRevisionId == Nullish(SessionRevisionOf(rows, sessionId, trackId),
                                    ActiveRevisionOf(trks, trackId))
        revision == {x \in RevisionsOf(revs, trackId) : x.id = targetRevisionId}
        preview == FindReadyAsset(assets, targetRevisionId, "audio_preview")
        source == FindReadyAsset(assets, targetRevisionId, "audio_source")
    IN IF targetRevisionId \in {Null, Undefined} THEN Null
       ELSE IF revision = {} THEN Null
       ELSE Nullish(Nullish(IdOrUndefined(preview), IdOrUndefined(source)), Null)

\* The loaded state: tA with revisions r1 and r2 and any pointer, tB without
\* revisions and with pointer null or, as PATCH /api/tracks can leave it, r1;
\* r1 with any combination of assets of the three types in any
\* status, r2 with or without a ready audio_preview; one session m1 on the
\* song whose row for tA is missing or carries null, r1 or r2.
PlayAsset(id, revisionId, assetType, status) ==
    [id |-> id, track_revision_id |-> revisionId, asset_type |-> assetType,
     status |-> status, byte_size |-> FileSize]

PlayInit ==
    /\ impl \in Impls
    /\ band_members = {[band_id |-> "b1", user_id |-> "u1"]}
    /\ songs = [s \in SongIds |-> "b1"]
    /\ track_revisions = {SeedRevision(1), SeedRevision(2)}
    /\ \E a \in {Null, newId(1), newId(2)}, b \in {Null, newId(1)} :
         tracks = [t \in TrackIds |->
                     [song_id |-> "s1", sort_order |-> IF t = "tA" THEN 1 ELSE 2,
                      active_revision_id |-> IF t = "tA" THEN a ELSE b]]
    /\ track_revision_counters =
         [t \in TrackIds |-> IF impl = "worker" /\ t = "tA" THEN 2 ELSE 0]
    /\ \E p, s, m \in AssetStatuses \cup {Null}, q \in {"ready", Null} :
         track_assets =
            {PlayAsset(AssetIdSeq[1], newId(1), "audio_preview", p) : x \in {p} \ {Null}}
            \cup {PlayAsset(AssetIdSeq[2], newId(1), "audio_source", s) : x \in {s} \ {Null}}
            \cup {PlayAsset(AssetIdSeq[3], newId(1), "midi", m) : x \in {m} \ {Null}}
            \cup {PlayAsset(AssetIdSeq[4], newId(2), "audio_preview", q) : x \in {q} \ {Null}}
    /\ mix_sessions = {[id |-> newSessionId({}), song_id |-> "s1", created_by |-> "u1"]}
    /\ \E v \in {Undefined, Null, newId(1), newId(2)} :
         mix_session_tracks =
            {toSessionTrack(newSessionId({}), ActiveSnapshotEntry("tA", v)) :
               x \in {v} \ {Undefined}}
    /\ reqs = [r \in ReqIds |-> IdleReq]

\* A call getPreviewAssetId(trackId) with session m1 selected or none.
CallGetPreviewAssetId(r) ==
    /\ NextSlot(r)
    /\ \E t \in TrackIds, sel \in {s.id : s \in mix_sessions} \cup {Null} :
         reqs' = [reqs EXCEPT ![r] =
                    [IdleReq EXCEPT
                       !.op = "getPreviewAssetId", !.pc = "done", !.track = t,
                       !.sess = sel, !.pred = DoneSet,
                       !.ret = getPreviewAssetId(t, sel, mix_session_tracks, tracks,
                                                 track_revisions, track_assets)]]
    /\ UNCHANGED <<impl, band_members, songs, tracks, track_revision_counters,
                   track_revisions, sessVars>>

PlayNext == \E r \in ReqIds : CallGetPreviewAssetId(r)

PlaySpec == PlayInit /\ [][PlayNext]_vars


PreviewCall(r) == reqs[r].op = "getPreviewAssetId" /\ Done(r)

\* the revision the page plays for the track of call r: the one of the
\* selected session's row when that names one, else the track's pointer
RevisionPlayed(r) ==
    LET st == {x \in mix_session_tracks :
                 x.mix_session_id = reqs[r].sess /\ x.track_id = reqs[r].track}
    IN IF st # {} /\ (CHOOSE x \in st : TRUE).track_revision_id # Null
       THEN (CHOOSE x \in st : TRUE).track_revision_id
       ELSE tracks[reqs[r].track].active_revision_id

\* ready assets of that revision, when it is among the revisions loaded for
\* the track (a revision of another track is no revision of this one)
ReadyOfPlayed(r, assetType) ==
    {a \in track_assets : /\ \E v \in RevisionsOf(track_revisions, reqs[r].track) :
                                v.id = RevisionPlayed(r)
                          /\ a.track_revision_id = RevisionPlayed(r)
                          /\ a.asset_type = assetType
                          /\ a.status = "ready"}

\* C39: getPreviewAssetId returns the ready audio_preview asset of the
\* revision played for the track if there is one, otherwise its ready
\* audio_source asset, otherwise nothing; what it returns is never a midi
\* asset nor an asset in pending, uploaded or failed.
C39_PreviewOnlyReadyAudio ==
    \A r \in ReqIds :
       PreviewCall(r) =>
          /\ reqs[r].ret =
                IF ReadyOfPlayed(r, "audio_preview") # {}
                THEN (CHOOSE a \in ReadyOfPlayed(r, "audio_preview") : TRUE).id
                ELSE IF ReadyOfPlayed(r, "audio_source") # {}
                THEN (CHOOSE a \in ReadyOfPlayed(r, "audio_source") : TRUE).id
                ELSE Null
          /\ reqs[r].ret # Null =>
                \E a \in track_assets :
                   /\ a.id = reqs[r].ret
                   /\ a.status = "ready"
                   /\ a.asset_type \in {"audio_preview", "audio_source"}
                   /\ a.track_revision_id = RevisionPlayed(r)

\* A call returned the ready audio_source asset of a revision whose
\* audio_preview asset is uploaded and whose midi asset is ready.
C39_Witness ==
    \E r \in ReqIds :
       /\ PreviewCall(r)
       /\ \E a, b, c \in track_assets :
             /\ a.track_revision_id = RevisionPlayed(r)
             /\ b.track_revision_id = RevisionPlayed(r)
             /\ c.track_revision_id = RevisionPlayed(r)
             /\ a.asset_type = "audio_preview" /\ a.status = "uploaded"
             /\ b.asset_type = "audio_source" /\ b.status = "ready"
             /\ c.asset_type = "midi" /\ c.status = "ready"
             /\ reqs[r].ret = b.id

\* C40: when the selected session's row for a track carries
\* track_revision_id null, getPreviewAssetId selects no asset for the track,
\* whatever the track's active_revision_id is.
C40_NullSessionRevisionPlaysNothing ==
    \A r \in ReqIds :
       (/\ PreviewCall(r)
        /\ \E x \in mix_session_tracks :
              /\ x.mix_session_id = reqs[r].sess
              /\ x.track_id = reqs[r].track
              /\ x.track_revision_id = Null)
       => reqs[r].ret = Null

====
